---- MODULE Spec2Model ----
(***************************************************************************)
(* A model of the schema-normalisation tools of AI-File-Processing:        *)
(* the in-memory column-mapping store and the row transformer              *)
(* (excelFunctions.js), the sampler and value classifier (utils.js) and    *)
(* the name/address combiners (nameParser.js, addressParser.js).           *)
(*                                                                         *)
(* JavaScript strings are modelled as sequences of one-character strings,  *)
(* so that trim(), includes(), toLowerCase() and the regular expressions   *)
(* are computed and not assumed.  Other JavaScript values are records with *)
(* a tag field t.                                                          *)
(***************************************************************************)
EXTENDS Integers, Sequences, FiniteSets, TLC

VARIABLES
    columnMappings,   \* the Map of excelFunctions.js: mappingId -> object reference
    heap,             \* object reference -> mapping object (canonical column -> value)
    clock,            \* Date.now()
    call,             \* the last call made: its arguments and its result
    outputFile,       \* the rows of the output file, or NoFile
    sample,           \* the last calculateSampleIndices / readExcelFileSample call
    infer,            \* the last two inferDataType calls
    reader,           \* a caller reading a file batch by batch: the rows it has so far
    run               \* one run of processExcelWithAI: the locals of its loop

vars == <<columnMappings, heap, clock, call, outputFile, sample, infer, reader, run>>

storeVars == <<columnMappings, heap, clock, call, outputFile>>

-----------------------------------------------------------------------------
(* JavaScript values *)

Null == [t |-> "null"]
Undefined == [t |-> "undefined"]
StrV(s) == [t |-> "string", s |-> s]
NumV(n) == [t |-> "number", n |-> n]
BoolV(b) == [t |-> "boolean", b |-> b]

IsStr(v) == v.t = "string"
IsNum(v) == v.t = "number"

\* JavaScript truthiness: null, undefined, '', 0 and false are falsy.
Truthy(v) ==
    CASE v.t = "null" -> FALSE
      [] v.t = "undefined" -> FALSE
      [] v.t = "string" -> v.s # <<>>
      [] v.t = "number" -> v.n # 0
      [] v.t = "boolean" -> v.b
      [] OTHER -> TRUE

-----------------------------------------------------------------------------
(* Strings *)

Digits == <<"0", "1", "2", "3", "4", "5", "6", "7", "8", "9">>

IsDigit(c) == \E i \in 1..Len(Digits) : Digits[i] = c

UpperCase == <<"A", "B", "C", "D", "E", "F", "G", "H", "I", "J", "K", "L", "M",
               "N", "O", "P", "Q", "R", "S", "T", "U", "V", "W", "X", "Y", "Z">>

LowerCase == <<"a", "b", "c", "d", "e", "f", "g", "h", "i", "j", "k", "l", "m",
               "n", "o", "p", "q", "r", "s", "t", "u", "v", "w", "x", "y", "z">>

LowerChar(c) ==
    IF \E i \in 1..Len(UpperCase) : UpperCase[i] = c
    THEN LowerCase[CHOOSE i \in 1..Len(UpperCase) : UpperCase[i] = c]
    ELSE c

\* String.prototype.toLowerCase
toLowerCase(s) == [i \in 1..Len(s) |-> LowerChar(s[i])]

IsSpace(c) == c = " "

\* String.prototype.trim
trim(s) ==
    IF \A i \in 1..Len(s) : IsSpace(s[i])
    THEN <<>>
    ELSE LET first == CHOOSE i \in 1..Len(s) :
                          ~IsSpace(s[i]) /\ \A j \in 1..(i - 1) : IsSpace(s[j])
             last == CHOOSE i \in 1..Len(s) :
                          ~IsSpace(s[i]) /\ \A j \in (i + 1)..Len(s) : IsSpace(s[j])
         IN SubSeq(s, first, last)

\* String.prototype.includes
includes(s, sub) ==
    \E i \in 1..(Len(s) - Len(sub) + 1) : SubSeq(s, i, i + Len(sub) - 1) = sub

RECURSIVE NatToStr(_)
NatToStr(n) ==
    IF n < 10 THEN <<Digits[n + 1]>>
    ELSE NatToStr(n \div 10) \o <<Digits[(n % 10) + 1]>>

\* String(n) for a whole number n
NumToStr(n) == IF n < 0 THEN <<"-">> \o NatToStr(-n) ELSE NatToStr(n)

\* Array.prototype.join on strings
RECURSIVE join(_, _)
join(parts, sep) ==
    IF parts = <<>> THEN <<>>
    ELSE IF Len(parts) = 1 THEN parts[1]
    ELSE parts[1] \o sep \o join(Tail(parts), sep)

\* String(value)
String(v) ==
    CASE v.t = "string" -> v.s
      [] v.t = "number" -> NumToStr(v.n)
      [] v.t = "boolean" -> IF v.b THEN <<"t", "r", "u", "e">> ELSE <<"f", "a", "l", "s", "e">>
      [] v.t = "null" -> <<"n", "u", "l", "l">>
      [] OTHER -> <<"u", "n", "d", "e", "f", "i", "n", "e", "d">>

-----------------------------------------------------------------------------
(* utils.js: formatValue *)

\* isExcelSerialDate (whole numbers: num % 1 is 0)
isExcelSerialDate(num) ==
    num > 0 /\ num < 100000 /\ (num % 1 # 0 \/ (num >= 1 /\ num <= 50000))

\* excelSerialToDate: new Date(1899, 11, 30) is midnight LOCAL time, floor(serial) days
\* of 86400000 ms are added to it, and getMonth/getDate/getFullYear read the result in
\* local time again.  zoneShift is the zone's UTC offset on the resulting date minus
\* its offset on 1899-12-30, in seconds: the local clock reads zoneShift seconds past
\* midnight, `serial` days after 1899-12-30.  The result is that day as M/D/YYYY.
excelSerialToDate(serial, zoneShift) ==
    LET days == serial + zoneShift \div 86400    \* whole days on the local calendar
        z == days - 25569 + 719468
        era == z \div 146097
        doe == z - era * 146097
        yoe == (doe - doe \div 1460 + doe \div 36524 - doe \div 146096) \div 365
        doy == doe - (365 * yoe + yoe \div 4 - yoe \div 100)
        mp == (5 * doy + 2) \div 153
        day == doy - (153 * mp + 2) \div 5 + 1
        month == IF mp < 10 THEN mp + 3 ELSE mp - 9
        year == yoe + era * 400 + (IF month <= 2 THEN 1 ELSE 0)
    IN NatToStr(month) \o <<"/">> \o NatToStr(day) \o <<"/">> \o NatToStr(year)

kwDate == <<"d", "a", "t", "e">>
kwTime == <<"t", "i", "m", "e">>
kwTimestamp == <<"t", "i", "m", "e", "s", "t", "a", "m", "p">>

NumericKeywords ==
    { <<"a", "g", "e">>, <<"a", "m", "o", "u", "n", "t">>,
      <<"q", "u", "a", "n", "t", "i", "t", "y">>, <<"p", "r", "i", "c", "e">>,
      <<"c", "o", "s", "t">>, <<"q", "t", "y">>, <<"c", "o", "u", "n", "t">>,
      <<"n", "u", "m", "b", "e", "r">>, <<"u", "n", "i", "t", "s">>,
      <<"t", "o", "t", "a", "l">> }

\* formatValue(value, columnHint) in an environment with the given zoneShift: always
\* a string
formatValueIn(value, columnHint, zoneShift) ==
    CASE value.t = "null" -> <<>>
      [] value.t = "undefined" -> <<>>
      [] value.t = "string" -> trim(value.s)
      [] value.t = "boolean" -> String(value)
      [] value.t = "number" ->
            LET lowerHint == toLowerCase(columnHint)
                isDateColumn == includes(lowerHint, kwDate) \/ includes(lowerHint, kwTime)
                                    \/ includes(lowerHint, kwTimestamp)
                isNumericColumn == \E k \in NumericKeywords : includes(lowerHint, k)
            IN IF isDateColumn /\ ~isNumericColumn /\ isExcelSerialDate(value.n)
               THEN excelSerialToDate(value.n, zoneShift)
               ELSE String(value)
      [] OTHER -> String(value)

\* formatValue as the row transformers call it; their specifications run in a zone
\* whose offset never changed (TZ=UTC), where zoneShift is 0
formatValue(value, columnHint) == formatValueIn(value, columnHint, 0)

\* a call of formatValue on its own, in any zone
FormatValue(value, columnHint, zoneShift) ==
    /\ call' = [op |-> "formatValue",
                arg |-> [value |-> value, columnHint |-> columnHint,
                         zoneShift |-> zoneShift],
                ret |-> StrV(formatValueIn(value, columnHint, zoneShift))]
    /\ UNCHANGED <<columnMappings, heap, clock, outputFile, sample, infer, reader, run>>

-----------------------------------------------------------------------------
(* constants.js: the canonical schema *)

STANDARD_COLUMNS ==
    << <<"D", "a", "t", "e">>,
       <<"N", "a", "m", "e">>,
       <<"A", "g", "e">>,
       <<"A", "d", "d", "r", "e", "s", "s">>,
       <<"G", "e", "n", "d", "e", "r">>,
       <<"C", "o", "n", "t", "a", "c", "t", " ", "N", "u", "m", "b", "e", "r">>,
       <<"P", "r", "o", "d", "u", "c", "t", " ", "P", "u", "r", "c", "h", "a", "s", "e", "d">>,
       <<"A", "m", "o", "u", "n", "t">>,
       <<"P", "r", "o", "d", "u", "c", "t", " ", "Q", "u", "a", "n", "t", "i", "t", "y">>,
       <<"E", "m", "a", "i", "l">> >>

StandardSet == {STANDARD_COLUMNS[i] : i \in 1..Len(STANDARD_COLUMNS)}

-----------------------------------------------------------------------------
(* Inputs: source tables and mapping objects *)

MaxObjs == 2      \* mapping objects alive at a time
MaxClock == 1     \* Date.now() takes the values 0..MaxClock
NumRand == 2      \* distinct outcomes of Math.random().toString(36).substr(2, 9)
MaxRows == 2      \* source rows passed to one transformRows call

hDate == <<"D", "a", "t", "e">>
hFirst == <<"F", "i", "r", "s", "t">>
hLast == <<"L", "a", "s", "t">>
hCity == <<"C", "i", "t", "y">>

ArrV(a) == [t |-> "array", a |-> a]
IsArray(v) == v.t = "array"

\* mapping && typeof mapping === 'object': the argument is ObjV(object) or null
ObjV(o) == [t |-> "object", o |-> o]
IsObject(mapping) == mapping.t = "object"

\* A table as the codec supplies it: headers and rows of raw cells.  The second row
\* is ragged (no City cell), the third is an empty row.
Table1 ==
    [headers |-> <<hDate, hFirst, hLast, hCity>>,
     rows |-> << <<NumV(45000), StrV(<<" ", "A", "n", "n", " ">>), StrV(<<"L", "e", "e">>),
                   StrV(<<"R", "o", "m", "e">>)>>,
                 <<StrV(<<"x">>), Null, StrV(<<"K">>)>>,
                 <<Null, StrV(<<>>), Undefined, Null>> >>]

\* A table in which the header Date occurs twice and no header is First.
Table2 ==
    [headers |-> <<hDate, hLast, hDate>>,
     rows |-> << <<NumV(7), StrV(<<"B">>), StrV(<<"A", " ">>)>>,
                 <<StrV(<<"C">>), NumV(0)>> >>]

Tables == {Table1, Table2}

\* The canonical columns whose entry varies over MapVals in the inputs; the other
\* entries are the empty string.  The store and the whole-file transformation are
\* explored with one such column, the row transformer with two.
StoreCols == {STANDARD_COLUMNS[1]}
FileCols == {STANDARD_COLUMNS[2]}
VaryCols == {STANDARD_COLUMNS[1], STANDARD_COLUMNS[2]}

Absent == [t |-> "absent"]

\* Entry values: no mapping, whitespace only, two header names, a non-string.
MapVals == {StrV(<<>>), StrV(<<" ">>), StrV(hDate), StrV(hFirst), NumV(5)}

\* The object with the entries f[c] for c in DOMAIN f (no key c when f[c] = Absent)
MappingOf(f) ==
    [c \in {k \in StandardSet : k \notin DOMAIN f \/ f[k] # Absent} |->
        IF c \in DOMAIN f THEN f[c] ELSE StrV(<<>>)]

MappingObjects(cols) == {MappingOf(f) : f \in [cols -> MapVals \cup {Absent}]}

\* a mapping argument: null or an object
MappingInputs(cols) == {Null} \cup {ObjV(o) : o \in MappingObjects(cols)}

\* obj[key] of a JavaScript object
Get(obj, key) == IF key \in DOMAIN obj THEN obj[key] ELSE Undefined

NoFile == <<"no file">>
NoTable == [headers |-> <<>>, rows |-> <<>>, missing |-> TRUE]
NoCall == [op |-> "none", arg |-> [none |-> TRUE], ret |-> [success |-> TRUE]]
EmptyMap == [x \in {} |-> 0]

-----------------------------------------------------------------------------
(* utils.js: createErrorResponse; the result objects *)

\* The text of each message the operations throw.  The values interpolated into a
\* message (the missing column names, the mapping id, a file path) are left out: the
\* canonical names and the generated ids of the model hold none of the keywords
\* categorizeError looks for.
ErrorText(message) ==
    CASE message = "Mapping must be an object" ->
           <<"M", "a", "p", "p", "i", "n", "g", " ", "m", "u", "s", "t", " ", "b", "e",
             " ", "a", "n", " ", "o", "b", "j", "e", "c", "t">>
      [] message = "Mapping is missing required columns" ->
           <<"M", "a", "p", "p", "i", "n", "g", " ", "i", "s", " ", "m", "i", "s", "s",
             "i", "n", "g", " ", "r", "e", "q", "u", "i", "r", "e", "d", " ", "c", "o",
             "l", "u", "m", "n", "s", ":", " ">>
      [] message = "val.trim is not a function" ->
           <<"v", "a", "l", ".", "t", "r", "i", "m", " ", "i", "s", " ", "n", "o", "t",
             " ", "a", " ", "f", "u", "n", "c", "t", "i", "o", "n">>
      [] message = "mappingId is required and must be a string" ->
           <<"m", "a", "p", "p", "i", "n", "g", "I", "d", " ", "i", "s", " ", "r", "e",
             "q", "u", "i", "r", "e", "d", " ", "a", "n", "d", " ", "m", "u", "s", "t",
             " ", "b", "e", " ", "a", " ", "s", "t", "r", "i", "n", "g">>
      [] message = "Mapping not found" ->
           <<"M", "a", "p", "p", "i", "n", "g", " ", "n", "o", "t", " ", "f", "o", "u",
             "n", "d", ":", " ", ".", " ", "P", "l", "e", "a", "s", "e", " ", "c", "r",
             "e", "a", "t", "e", " ", "a", " ", "m", "a", "p", "p", "i", "n", "g", " ",
             "f", "i", "r", "s", "t", " ", "u", "s", "i", "n", "g", " ", "c", "r", "e",
             "a", "t", "e", "C", "o", "l", "u", "m", "n", "M", "a", "p", "p", "i", "n",
             "g", ".">>
      [] message = "sourceRows must be an array" ->
           <<"s", "o", "u", "r", "c", "e", "R", "o", "w", "s", " ", "m", "u", "s", "t",
             " ", "b", "e", " ", "a", "n", " ", "a", "r", "r", "a", "y">>
      [] message = "sourceHeaders must be an array" ->
           <<"s", "o", "u", "r", "c", "e", "H", "e", "a", "d", "e", "r", "s", " ", "m",
             "u", "s", "t", " ", "b", "e", " ", "a", "n", " ", "a", "r", "r", "a", "y">>
      [] message = "sourceColumnName.trim is not a function" ->
           <<"s", "o", "u", "r", "c", "e", "C", "o", "l", "u", "m", "n", "N", "a", "m",
             "e", ".", "t", "r", "i", "m", " ", "i", "s", " ", "n", "o", "t", " ", "a",
             " ", "f", "u", "n", "c", "t", "i", "o", "n">>
      [] message = "Source file not found" ->
           <<"S", "o", "u", "r", "c", "e", " ", "f", "i", "l", "e", " ", "n", "o", "t",
             " ", "f", "o", "u", "n", "d", ":", " ">>
      [] message = "Invalid mapping object" ->
           <<"I", "n", "v", "a", "l", "i", "d", " ", "m", "a", "p", "p", "i", "n", "g",
             " ", "o", "b", "j", "e", "c", "t">>
      [] message = "Sample data must be a non-empty array" ->
           <<"S", "a", "m", "p", "l", "e", " ", "d", "a", "t", "a", " ", "m", "u", "s",
             "t", " ", "b", "e", " ", "a", " ", "n", "o", "n", "-", "e", "m", "p", "t",
             "y", " ", "a", "r", "r", "a", "y">>
      [] message = "trim is not a function" ->
           <<"t", "r", "i", "m", " ", "i", "s", " ", "n", "o", "t", " ", "a", " ", "f",
             "u", "n", "c", "t", "i", "o", "n">>
      [] message = "File not found" ->
           <<"F", "i", "l", "e", " ", "n", "o", "t", " ", "f", "o", "u", "n", "d", ":",
             " ">>
      [] message = "Sheet is empty" ->
           <<"S", "h", "e", "e", "t", " ", "i", "s", " ", "e", "m", "p", "t", "y">>
      [] message = "Data must be a non-empty array" ->
           <<"D", "a", "t", "a", " ", "m", "u", "s", "t", " ", "b", "e", " ", "a", " ",
             "n", "o", "n", "-", "e", "m", "p", "t", "y", " ", "a", "r", "r", "a", "y">>
      [] message = "All rows must have exactly 10 columns" ->
           <<"A", "l", "l", " ", "r", "o", "w", "s", " ", "m", "u", "s", "t", " ", "h",
             "a", "v", "e", " ", "e", "x", "a", "c", "t", "l", "y", " ", "1", "0", " ",
             "c", "o", "l", "u", "m", "n", "s", ".", " ", "F", "o", "u", "n", "d", " ",
             " ", "i", "n", "v", "a", "l", "i", "d", " ", "r", "o", "w", "s", ".">>

\* the keywords of categorizeError, each with the category it gives, in the order tested
CategoryKeywords ==
    << [category |-> "INVALID_EXCEL_FORMAT", keyword |->
            <<"I", "n", "v", "a", "l", "i", "d", " ", "f", "i", "l", "e", " ", "f", "o",
              "r", "m", "a", "t">>],
       [category |-> "INVALID_EXCEL_FORMAT", keyword |->
            <<"n", "o", "t", " ", "a", " ", "v", "a", "l", "i", "d", " ", "E", "x", "c",
              "e", "l">>],
       [category |-> "SHEET_NOT_FOUND", keyword |->
            <<"S", "h", "e", "e", "t", " ", "n", "o", "t", " ", "f", "o", "u", "n", "d">>],
       [category |-> "MEMORY_ERROR", keyword |->
            <<"o", "u", "t", " ", "o", "f", " ", "m", "e", "m", "o", "r", "y">>],
       [category |-> "MEMORY_ERROR", keyword |->
            <<"h", "e", "a", "p">>],
       [category |-> "EXCEL_PARSING_ERROR", keyword |->
            <<"X", "L", "S", "X">>],
       [category |-> "EXCEL_PARSING_ERROR", keyword |->
            <<"w", "o", "r", "k", "b", "o", "o", "k">>],
       [category |-> "VALIDATION_ERROR", keyword |->
            <<"v", "a", "l", "i", "d", "a", "t", "i", "o", "n">>],
       [category |-> "VALIDATION_ERROR", keyword |->
            <<"i", "n", "v", "a", "l", "i", "d", " ", "d", "a", "t", "a">>],
       [category |-> "MAPPING_ERROR", keyword |->
            <<"m", "a", "p", "p", "i", "n", "g">>] >>

\* categorizeError(error) for an Error without a code: the category of the first
\* keyword message.includes finds, case-sensitively
categorizeError(message) ==
    LET text == ErrorText(message)
        hits == {k \in 1..Len(CategoryKeywords) : includes(text, CategoryKeywords[k].keyword)}
    IN IF hits = {} THEN "UNKNOWN_ERROR"
       ELSE CategoryKeywords[CHOOSE k \in hits : \A j \in hits : k <= j].category

\* RECOVERABLE_ERRORS
RECOVERABLE_ERRORS == {"SHEET_NOT_FOUND", "VALIDATION_ERROR", "MAPPING_ERROR"}

\* the category of every message the modelled handlers throw
ErrorCategories ==
    [message \in {"Mapping must be an object", "Mapping is missing required columns",
                  "val.trim is not a function",
                  "mappingId is required and must be a string", "Mapping not found",
                  "sourceRows must be an array", "sourceHeaders must be an array",
                  "sourceColumnName.trim is not a function", "Source file not found",
                  "Invalid mapping object", "Sample data must be a non-empty array",
                  "trim is not a function", "File not found", "Sheet is empty",
                  "Data must be a non-empty array",
                  "All rows must have exactly 10 columns"} |->
        categorizeError(message)]

\* createErrorResponse(functionName, error); the suggestion, a fixed text per category,
\* is left out
createErrorResponse(functionName, message) ==
    [success |-> FALSE,
     error |-> [category |-> ErrorCategories[message],
                message |-> message,
                functionName |-> functionName,
                recoverable |-> ErrorCategories[message] \in RECOVERABLE_ERRORS]]

\* a value on which .trim() is not a function: the call throws a TypeError
TrimThrows(v) == Truthy(v) /\ ~IsStr(v)

\* !val || val.trim() === ''   (for a val on which it does not throw)
IsBlankEntry(v) == ~Truthy(v) \/ trim(v.s) = <<>>

-----------------------------------------------------------------------------
(* excelFunctions.js: createColumnMapping *)

MappingId(time, rand) == [time |-> time, rand |-> rand]

Refs == 1..MaxObjs

FreeRefs == Refs \ DOMAIN heap

\* STANDARD_COLUMNS.filter(col => !(col in mapping))
missingColumns(mapping) == {c \in StandardSet : c \notin DOMAIN mapping}

\* Object.values(mapping).filter(val => val && val.trim() !== '').length
mappedColumns(mapping) == Cardinality({c \in DOMAIN mapping : ~IsBlankEntry(mapping[c])})

\* The validation at the head of createColumnMapping: the message thrown, or "" if none
createValidation(mapping) ==
    IF ~IsObject(mapping) THEN "Mapping must be an object"
    ELSE IF missingColumns(mapping.o) # {} THEN "Mapping is missing required columns"
    ELSE ""

\* The value createColumnMapping returns once the mapping is stored under mappingId
createResult(mapping, mappingId) ==
    IF \E c \in DOMAIN mapping : TrimThrows(mapping[c])
    THEN createErrorResponse("createColumnMapping", "val.trim is not a function")
    ELSE [success |-> TRUE, mappingId |-> mappingId,
          mappedColumns |-> mappedColumns(mapping),
          unmappedColumns |-> Len(STANDARD_COLUMNS) - mappedColumns(mapping)]

\* createColumnMapping({ mapping }), with rand the outcome of Math.random().  The
\* object itself is stored: ref is the reference the caller keeps to it.
CreateColumnMapping(mapping, rand) ==
    /\ IF createValidation(mapping) # ""
       THEN /\ call' = [op |-> "createColumnMapping", arg |-> [mapping |-> mapping],
                        ret |-> createErrorResponse("createColumnMapping",
                                                    createValidation(mapping))]
            /\ UNCHANGED <<columnMappings, heap>>
       ELSE /\ FreeRefs # {}
            /\ LET ref == CHOOSE r \in FreeRefs : \A q \in FreeRefs : r <= q
                   mappingId == MappingId(clock, rand)
               IN /\ heap' = [r \in DOMAIN heap \cup {ref} |->
                                 IF r = ref THEN mapping.o ELSE heap[r]]
                  /\ columnMappings' = [i \in DOMAIN columnMappings \cup {mappingId} |->
                                           IF i = mappingId THEN ref ELSE columnMappings[i]]
                  /\ call' = [op |-> "createColumnMapping", arg |-> [mapping |-> mapping],
                              ret |-> createResult(mapping.o, mappingId)]
    /\ UNCHANGED <<clock, outputFile, sample, infer, reader, run>>

\* The caller changes or deletes an entry of an object it passed to createColumnMapping.
CallerMutates(ref, key, val) ==
    /\ ref \in DOMAIN heap
    /\ heap' = [heap EXCEPT ![ref] =
                   [c \in (IF val = Absent THEN DOMAIN @ \ {key} ELSE DOMAIN @ \cup {key}) |->
                       IF c = key THEN val ELSE @[c]]]
    /\ heap' # heap
    /\ call' = [op |-> "callerMutates", arg |-> [ref |-> ref, key |-> key, val |-> val],
                ret |-> [success |-> TRUE]]
    /\ UNCHANGED <<columnMappings, clock, outputFile, sample, infer, reader, run>>

\* clearColumnMappings()
ClearColumnMappings ==
    /\ columnMappings' = EmptyMap
    /\ UNCHANGED heap
    /\ call' = [op |-> "clearColumnMappings", arg |-> [none |-> TRUE],
                ret |-> [success |-> TRUE]]
    /\ UNCHANGED <<clock, outputFile, sample, infer, reader, run>>

\* Time passes: Date.now() grows.
Tick ==
    /\ clock < MaxClock
    /\ clock' = clock + 1
    /\ UNCHANGED <<columnMappings, heap, call, outputFile, sample, infer, reader, run>>

\* getColumnMapping(mappingId), for a mappingId of the store
getColumnMapping(mappingId) == heap[columnMappings[mappingId]]

-----------------------------------------------------------------------------
(* excelFunctions.js: transformRows *)

\* sourceIndexMap filled with positions that are one too high
sourceIndexMapShifted(sourceHeaders, name) ==
    IF \E i \in 1..Len(sourceHeaders) : sourceHeaders[i] = name
    THEN 1 + CHOOSE i \in 1..Len(sourceHeaders) :
                 /\ sourceHeaders[i] = name
                 /\ \A j \in (i + 1)..Len(sourceHeaders) : sourceHeaders[j] # name
    ELSE 0

\* sourceIndexMap[name] after sourceHeaders.forEach((header, index) => ...): the
\* position of the last header equal to name (positions count from 1 here, the
\* code's index is one less), or 0 for undefined.
sourceIndexMap(sourceHeaders, name) ==
    IF \E i \in 1..Len(sourceHeaders) : sourceHeaders[i] = name
    THEN CHOOSE i \in 1..Len(sourceHeaders) :
             /\ sourceHeaders[i] = name
             /\ \A j \in (i + 1)..Len(sourceHeaders) : sourceHeaders[j] # name
    ELSE 0

\* sourceRow[sourceIndex]
CellAt(sourceRow, pos) == IF pos \in 1..Len(sourceRow) THEN sourceRow[pos] ELSE Undefined

\* The value pushed for one standard column (for an entry that does not throw)
transformCell(mapping, sourceHeaders, sourceRow, standardColumn) ==
    LET sourceColumnName == Get(mapping, standardColumn)
    IN IF IsBlankEntry(sourceColumnName) THEN <<>>
       ELSE LET sourceIndex == sourceIndexMap(sourceHeaders, sourceColumnName.s)
            IN IF sourceIndex # 0 /\ CellAt(sourceRow, sourceIndex) # Undefined
               THEN formatValue(CellAt(sourceRow, sourceIndex), sourceColumnName.s)
               ELSE <<>>

\* One transformed row: a value per standard column, in schema order
transformRow(mapping, sourceHeaders, sourceRow) ==
    [j \in 1..Len(STANDARD_COLUMNS) |->
        transformCell(mapping, sourceHeaders, sourceRow, STANDARD_COLUMNS[j])]

\* sourceColumnName.trim() throws for some standard column
transformThrows(mapping) == \E c \in StandardSet : TrimThrows(Get(mapping, c))

\* transformValidation with the input-shape checks made before the store lookup
transformValidationShapeFirst(mappingId, sourceRows, sourceHeaders) ==
    IF mappingId = Null THEN "mappingId is required and must be a string"
    ELSE IF ~IsArray(sourceRows) THEN "sourceRows must be an array"
    ELSE IF ~IsArray(sourceHeaders) THEN "sourceHeaders must be an array"
    ELSE IF mappingId \notin DOMAIN columnMappings THEN "Mapping not found"
    ELSE ""

\* The message of the error transformRows throws before it transforms, or ""
transformValidation(mappingId, sourceRows, sourceHeaders) ==
    IF mappingId = Null THEN "mappingId is required and must be a string"
    ELSE IF mappingId \notin DOMAIN columnMappings THEN "Mapping not found"
    ELSE IF ~IsArray(sourceRows) THEN "sourceRows must be an array"
    ELSE IF ~IsArray(sourceHeaders) THEN "sourceHeaders must be an array"
    ELSE ""

\* The value transformRows({ mappingId, sourceRows, sourceHeaders }) returns
transformRowsResult(mappingId, sourceRows, sourceHeaders) ==
    LET mapping == getColumnMapping(mappingId)
        failed == transformValidation(mappingId, sourceRows, sourceHeaders)
    IN IF failed # "" THEN createErrorResponse("transformRows", failed)
       ELSE IF sourceRows.a # <<>> /\ transformThrows(mapping)
       THEN createErrorResponse("transformRows", "sourceColumnName.trim is not a function")
       ELSE [success |-> TRUE,
             transformedRows |-> [i \in 1..Len(sourceRows.a) |->
                                     transformRow(mapping, sourceHeaders.a, sourceRows.a[i])],
             rowCount |-> Len(sourceRows.a),
             columnCount |-> 10]

TransformRows(mappingId, sourceRows, sourceHeaders) ==
    /\ call' = [op |-> "transformRows",
                arg |-> [mappingId |-> mappingId, sourceRows |-> sourceRows,
                         sourceHeaders |-> sourceHeaders],
                ret |-> transformRowsResult(mappingId, sourceRows, sourceHeaders)]
    /\ UNCHANGED <<columnMappings, heap, clock, outputFile, sample, infer, reader, run>>

-----------------------------------------------------------------------------
(* nameParser.js and addressParser.js: the combiners *)

\* the parts taken in the order first, last, middle
combineNameLastBeforeMiddle(firstName, lastName, middleName) ==
    LET truthy == SelectSeq(<<firstName, lastName, middleName>>, Truthy)
        trimmed == [i \in 1..Len(truthy) |-> trim(String(truthy[i]))]
        NonEmpty(x) == Len(x) > 0
    IN join(SelectSeq(trimmed, NonEmpty), <<" ">>)

\* combineName(firstName, lastName, middleName)
combineName(firstName, lastName, middleName) ==
    LET truthy == SelectSeq(<<firstName, middleName, lastName>>, Truthy)
        trimmed == [i \in 1..Len(truthy) |-> trim(String(truthy[i]))]
        NonEmpty(x) == Len(x) > 0
    IN join(SelectSeq(trimmed, NonEmpty), <<" ">>)

\* value && String(value).trim()
Present(v) == Truthy(v) /\ trim(String(v)) # <<>>

\* state and postal pushed as two parts of the list
consolidateAddressFieldsSeparate(street, apartment, city, state, postal, country) ==
    LET Part(v) == IF Present(v) THEN << trim(String(v)) >> ELSE <<>>
    IN join(Part(street) \o Part(apartment) \o Part(city) \o Part(state) \o Part(postal)
                \o Part(country),
            <<",", " ">>)

\* consolidateAddressFields(street, apartment, city, state, postal, country)
consolidateAddressFields(street, apartment, city, state, postal, country) ==
    LET Part(v) == IF Present(v) THEN << trim(String(v)) >> ELSE <<>>
        statePostal == Part(state) \o Part(postal)
    IN join(Part(street) \o Part(apartment) \o Part(city)
                \o (IF Len(statePostal) > 0 THEN << join(statePostal, <<" ">>) >> ELSE <<>>)
                \o Part(country),
            <<",", " ">>)

\* a call of combineName; middleName undefined takes the default ''
CombineName(firstName, lastName, middleName) ==
    /\ call' = [op |-> "combineName",
                arg |-> [firstName |-> firstName, lastName |-> lastName,
                         middleName |-> middleName],
                ret |-> StrV(combineName(firstName, lastName,
                                         IF middleName = Undefined THEN StrV(<<>>)
                                         ELSE middleName))]
    /\ UNCHANGED <<columnMappings, heap, clock, outputFile, sample, infer, reader, run>>

\* a call of consolidateAddressFields
ConsolidateAddressFields(street, apartment, city, state, postal, country) ==
    /\ call' = [op |-> "consolidateAddressFields",
                arg |-> [street |-> street, apartment |-> apartment, city |-> city,
                         state |-> state, postal |-> postal, country |-> country],
                ret |-> StrV(consolidateAddressFields(street, apartment, city, state,
                                                      postal, country))]
    /\ UNCHANGED <<columnMappings, heap, clock, outputFile, sample, infer, reader, run>>

\* Texts for the address parts
adStreet == <<"1", " ", "E", "l", "m", " ", "S", "t">>
adCity == <<"N", "e", "w", " ", "Y", "o", "r", "k">>
Countries == {StrV(<<"U", "S", "A">>), StrV(<<" ", " ">>), Undefined}

\* headers.indexOf(name): the first position of name (from 1), or 0 for -1
indexOf(headers, name) ==
    IF \E i \in 1..Len(headers) : headers[i] = name
    THEN CHOOSE i \in 1..Len(headers) :
             headers[i] = name /\ \A j \in 1..(i - 1) : headers[j] # name
    ELSE 0

-----------------------------------------------------------------------------
(* excelFunctions.js: transformAndWriteFile *)

\* isRowEmpty(row)
isRowEmpty(row) ==
    \A i \in 1..Len(row) : row[i] = Null \/ row[i] = Undefined \/ row[i] = StrV(<<>>)

\* data.slice(1).filter(row => !isRowEmpty(row))
nonEmptyDataRows(table) ==
    LET Keep(row) == ~isRowEmpty(row) IN SelectSeq(table.rows, Keep)

\* data[0].map(h => String(h || '').trim())
headersOf(table) == [i \in 1..Len(table.headers) |-> trim(table.headers[i])]

\* The rows transformAndWriteFile computes from the source table and the mapping
\* object.  nameColumns and addressComponents are not among the parameters the
\* function destructures: nothing reads them.
transformAllRows(table, mapping, nameColumns, addressComponents) ==
    LET rows == nonEmptyDataRows(table)
    IN [i \in 1..Len(rows) |-> transformRow(mapping, headersOf(table), rows[i])]

\* transformAndWriteFile({ ..., mapping, mappingId, nameColumns, addressComponents })
\* on a source file holding `table` (NoTable: the file does not exist)
TransformAndWriteFile(table, mapping, nameColumns, addressComponents) ==
    LET arg == [table |-> table, mapping |-> mapping, nameColumns |-> nameColumns,
                addressComponents |-> addressComponents]
        failed == IF table = NoTable THEN "Source file not found"
                  ELSE IF ~IsObject(mapping) THEN "Invalid mapping object"
                  ELSE IF nonEmptyDataRows(table) # <<>> /\ transformThrows(mapping.o)
                  THEN "sourceColumnName.trim is not a function"
                  ELSE ""
    IN /\ IF failed # ""
          THEN /\ call' = [op |-> "transformAndWriteFile", arg |-> arg,
                           ret |-> createErrorResponse("transformAndWriteFile", failed)]
               /\ UNCHANGED outputFile
          ELSE LET transformedRows ==
                       transformAllRows(table, mapping.o, nameColumns, addressComponents)
               IN /\ outputFile' = <<STANDARD_COLUMNS>> \o transformedRows
                  /\ call' = [op |-> "transformAndWriteFile", arg |-> arg,
                              ret |-> [success |-> TRUE,
                                       rowsProcessed |-> Len(transformedRows),
                                       columnsOutput |-> 10]]
       /\ UNCHANGED <<columnMappings, heap, clock, sample, infer, reader, run>>

-----------------------------------------------------------------------------
(* utils.js: calculateSampleIndices; excelFunctions.js: readExcelFileSample *)

MaxTotalRows == 14     \* totalRows ranges over -1..MaxTotalRows
MaxSampleSize == 12    \* sampleSize ranges over 0..MaxSampleSize
SAMPLE_CAP == 10       \* Math.min(sampleSize, 10, totalRows)

Min(a, b) == IF a <= b THEN a ELSE b

RangeOf(seq) == {seq[i] : i \in 1..Len(seq)}

\* [...new Set(indices)].sort((a, b) => a - b)
RECURSIVE SortedSeq(_)
SortedSeq(set) ==
    IF set = {} THEN <<>>
    ELSE LET least == CHOOSE x \in set : \A y \in set : x <= y
         IN <<least>> \o SortedSeq(set \ {least})

\* the indices pushed by the loop for (let i = 1; i <= remainingSamples; i++)
RECURSIVE middleIndices(_, _, _, _)
middleIndices(i, remainingSamples, step, totalRows) ==
    IF i > remainingSamples THEN <<>>
    ELSE (IF i * step < totalRows - 1 THEN <<i * step>> ELSE <<>>)
             \o middleIndices(i + 1, remainingSamples, step, totalRows)

\* calculateSampleIndices that never adds the last row
calculateSampleIndicesNoLast(totalRows, sampleSize) ==
    IF totalRows <= 0 THEN <<>>
    ELSE IF totalRows <= sampleSize THEN [i \in 1..totalRows |-> i - 1]
    ELSE LET remainingSamples == sampleSize - 2
             middle == IF remainingSamples > 0
                       THEN middleIndices(1, remainingSamples,
                                          totalRows \div (remainingSamples + 1), totalRows)
                       ELSE <<>>
         IN SortedSeq(RangeOf(<<0>> \o middle))

\* calculateSampleIndices(totalRows, sampleSize)
calculateSampleIndices(totalRows, sampleSize) ==
    IF totalRows <= 0 THEN <<>>
    ELSE IF totalRows <= sampleSize THEN [i \in 1..totalRows |-> i - 1]
    ELSE LET remainingSamples == sampleSize - 2
             middle == IF remainingSamples > 0
                       THEN middleIndices(1, remainingSamples,
                                          totalRows \div (remainingSamples + 1), totalRows)
                       ELSE <<>>
             last == IF totalRows > 1 THEN <<totalRows - 1>> ELSE <<>>
         IN SortedSeq(RangeOf(<<0>> \o middle \o last))

\* The sample indices of readExcelFileSample for a file of totalRows non-empty data
\* rows; sampleRows holds one row per index.
sampleIndicesOf(totalRows, sampleSize) ==
    IF totalRows = 0 THEN <<>>
    ELSE LET maxSample == Min(Min(sampleSize, SAMPLE_CAP), totalRows)
         IN calculateSampleIndices(totalRows, maxSample)

CalculateSampleIndices(totalRows, sampleSize) ==
    /\ sample' = [op |-> "calculateSampleIndices", totalRows |-> totalRows,
                  sampleSize |-> sampleSize,
                  indices |-> calculateSampleIndices(totalRows, sampleSize),
                  rowCount |-> 0]
    /\ UNCHANGED <<columnMappings, heap, clock, call, outputFile, infer, reader, run>>

ReadExcelFileSample(totalRows, sampleSize) ==
    /\ sample' = [op |-> "readExcelFileSample", totalRows |-> totalRows,
                  sampleSize |-> sampleSize,
                  indices |-> sampleIndicesOf(totalRows, sampleSize),
                  rowCount |-> Len(sampleIndicesOf(totalRows, sampleSize))]
    /\ UNCHANGED <<columnMappings, heap, clock, call, outputFile, infer, reader, run>>

NoSample == [op |-> "none", totalRows |-> 0, sampleSize |-> 0, indices |-> <<>>,
             rowCount |-> 0]

-----------------------------------------------------------------------------
(* constants.js: DATA_TYPE_PATTERNS; utils.js: inferDataType *)

AllDigits(s, from, to) == \A i \in from..to : IsDigit(s[i])

\* /^[\+\d\s\-\(\)]{10,}$/
phonePattern(s) ==
    /\ Len(s) >= 10
    /\ \A i \in 1..Len(s) : IsDigit(s[i]) \/ IsSpace(s[i]) \/ s[i] \in {"+", "-", "(", ")"}

\* /@.+\..+/
emailPattern(s) ==
    \E i \in 1..Len(s) : \E j \in (i + 2)..(Len(s) - 1) : s[i] = "@" /\ s[j] = "."

\* /^\$?[\d,]+\.?\d*$/
currencyPattern(s) ==
    LET r == IF s # <<>> /\ s[1] = "$" THEN Tail(s) ELSE s
    IN \E k \in 1..Len(r) :
          /\ \A i \in 1..k : IsDigit(r[i]) \/ r[i] = ","
          /\ \/ AllDigits(r, k + 1, Len(r))
             \/ (r[k + 1] = "." /\ AllDigits(r, k + 2, Len(r)))

\* /^\d{4}-\d{2}-\d{2}/
dateISOPattern(s) ==
    /\ Len(s) >= 10
    /\ AllDigits(s, 1, 4) /\ s[5] = "-" /\ AllDigits(s, 6, 7) /\ s[8] = "-"
    /\ AllDigits(s, 9, 10)

\* ^\d{1,2} sep \d{1,2} sep \d{n}  as a prefix of s
dateParts(s, sep, n) ==
    \E a \in 1..2 : \E b \in 1..2 :
        /\ Len(s) >= a + b + 2 + n
        /\ AllDigits(s, 1, a) /\ s[a + 1] = sep
        /\ AllDigits(s, a + 2, a + 1 + b) /\ s[a + b + 2] = sep
        /\ AllDigits(s, a + b + 3, a + b + 2 + n)

\* /^\d{1,2}\/\d{1,2}\/\d{2,4}/
dateUSPattern(s) == dateParts(s, "/", 2)

\* /^\d{1,2}-\d{1,2}-\d{4}/
dateEUPattern(s) == dateParts(s, "-", 4)

\* /^\d+$/
numberPattern(s) == Len(s) >= 1 /\ AllDigits(s, 1, Len(s))

\* /^\d+\.\d+$/
decimalPattern(s) ==
    \E k \in 2..(Len(s) - 1) : s[k] = "." /\ AllDigits(s, 1, k - 1) /\ AllDigits(s, k + 1, Len(s))

\* s.replace(/,/g, '')
removeCommas(s) == LET NotComma(c) == c # "," IN SelectSeq(s, NotComma)

\* the cascade with the date patterns tested before the phone pattern
classifyDatesFirst(firstValue) ==
    IF dateISOPattern(firstValue) THEN "date"
    ELSE IF dateUSPattern(firstValue) THEN "date"
    ELSE IF dateEUPattern(firstValue) THEN "date"
    ELSE IF phonePattern(firstValue) THEN "phone"
    ELSE IF emailPattern(firstValue) THEN "email"
    ELSE IF currencyPattern(removeCommas(firstValue)) THEN "currency"
    ELSE IF numberPattern(firstValue) THEN "number"
    ELSE IF decimalPattern(firstValue) THEN "number"
    ELSE "string"

\* the cascade with the two number patterns tested before the currency pattern
classifyNumbersFirst(firstValue) ==
    IF phonePattern(firstValue) THEN "phone"
    ELSE IF emailPattern(firstValue) THEN "email"
    ELSE IF numberPattern(firstValue) THEN "number"
    ELSE IF decimalPattern(firstValue) THEN "number"
    ELSE IF currencyPattern(removeCommas(firstValue)) THEN "currency"
    ELSE IF dateISOPattern(firstValue) THEN "date"
    ELSE IF dateUSPattern(firstValue) THEN "date"
    ELSE IF dateEUPattern(firstValue) THEN "date"
    ELSE "string"

\* the tag of the (trimmed) first value
classify(firstValue) ==
    IF phonePattern(firstValue) THEN "phone"
    ELSE IF emailPattern(firstValue) THEN "email"
    ELSE IF currencyPattern(removeCommas(firstValue)) THEN "currency"
    ELSE IF dateISOPattern(firstValue) THEN "date"
    ELSE IF dateUSPattern(firstValue) THEN "date"
    ELSE IF dateEUPattern(firstValue) THEN "date"
    ELSE IF numberPattern(firstValue) THEN "number"
    ELSE IF decimalPattern(firstValue) THEN "number"
    ELSE "string"

\* val !== null && val !== undefined && val !== ''
NotEmptyValue(val) == val # Null /\ val # Undefined /\ val # StrV(<<>>)

\* the last non-empty value in place of the first
lastNonEmpty(values) ==
    LET kept == SelectSeq(values, NotEmptyValue) IN kept[Len(kept)]

\* values.filter(...)[0]: the value inferDataType looks at
firstNonEmpty(values) == Head(SelectSeq(values, NotEmptyValue))

\* inferDataType(values): values is ArrV(list) or null
inferDataType(values) ==
    IF ~IsArray(values) \/ values.a = <<>> THEN "empty"
    ELSE IF SelectSeq(values.a, NotEmptyValue) = <<>> THEN "empty"
    ELSE classify(trim(String(firstNonEmpty(values.a))))

-----------------------------------------------------------------------------
(* inferDataType calls *)

MaxValues == 2    \* length of a sample-value list

adEmail == <<"a", "@", "b", ".", "c">>

\* null, '', whitespace only, a number-like string, an email, a date
InferValues ==
    {Null, StrV(<<>>), StrV(<<" ">>), StrV(<<"1", "2">>), StrV(adEmail),
     StrV(<<"1", "/", "2", "/", "2", "4">>)}

RECURSIVE ListsUpTo(_, _)
ListsUpTo(S, n) ==
    IF n = 0 THEN {<<>>}
    ELSE LET shorter == ListsUpTo(S, n - 1)
         IN shorter \cup {Append(l, x) : l \in {k \in shorter : Len(k) = n - 1}, x \in S}

InferInputs == {Null} \cup {ArrV(l) : l \in ListsUpTo(InferValues, MaxValues)}

NoInfer == [values |-> Null, dataType |-> "empty"]

\* inferDataType(values) is called; the call before it is remembered
InferDataType(values) ==
    /\ infer' = [prev |-> infer.last,
                 last |-> [values |-> values, dataType |-> inferDataType(values)]]
    /\ UNCHANGED <<columnMappings, heap, clock, call, outputFile, sample, reader, run>>

-----------------------------------------------------------------------------
(* addressParser.js: parseAddress *)

\* s.split(c) for a one-character separator c
RECURSIVE split(_, _)
split(s, c) ==
    IF \A i \in 1..Len(s) : s[i] # c THEN <<s>>
    ELSE LET k == CHOOSE i \in 1..Len(s) : s[i] = c /\ \A j \in 1..(i - 1) : s[j] # c
         IN <<SubSeq(s, 1, k - 1)>> \o split(SubSeq(s, k + 1, Len(s)), c)

\* parseStatePostal(statePostalStr): str.trim().split(/\s+/), the last token being the
\* postal code when it is all digits
parseStatePostal(statePostalStr) ==
    IF statePostalStr = <<>> THEN [state |-> <<>>, postal |-> <<>>]
    ELSE LET NonEmpty(x) == x # <<>>
             parts == SelectSeq(split(trim(statePostalStr), " "), NonEmpty)
             lastPart == parts[Len(parts)]
         IN IF Len(parts) = 0 THEN [state |-> <<>>, postal |-> <<>>]
            ELSE IF numberPattern(lastPart)
            THEN [state |-> join(SubSeq(parts, 1, Len(parts) - 1), <<" ">>),
                  postal |-> lastPart]
            ELSE [state |-> join(parts, <<" ">>), postal |-> <<>>]

\* /^(apt|unit|suite|#|\d+[a-z]?)/i.test(secondPart) || secondPart.length < 10
secondPartIsApartment(secondPart) ==
    LET lower == toLowerCase(secondPart)
        StartsWith(w) == Len(lower) >= Len(w) /\ SubSeq(lower, 1, Len(w)) = w
    IN \/ StartsWith(<<"a", "p", "t">>) \/ StartsWith(<<"u", "n", "i", "t">>)
       \/ StartsWith(<<"s", "u", "i", "t", "e">>) \/ StartsWith(<<"#">>)
       \/ (Len(lower) >= 1 /\ IsDigit(lower[1]))
       \/ Len(secondPart) < 10

\* parseAddress(combinedAddress)
parseAddress(combinedAddress) ==
    LET empty == [street |-> <<>>, apartment |-> <<>>, city |-> <<>>, state |-> <<>>,
                  postal |-> <<>>, country |-> <<>>]
    IN IF ~Truthy(combinedAddress) \/ ~IsStr(combinedAddress) THEN empty
       ELSE LET NonEmpty(x) == x # <<>>
                pieces == split(combinedAddress.s, ",")
                parts == SelectSeq([i \in 1..Len(pieces) |-> trim(pieces[i])], NonEmpty)
                n == Len(parts)
                At(i) == IF n >= i THEN parts[i] ELSE <<>>
                shift == IF n >= 2 /\ secondPartIsApartment(parts[2]) THEN 1 ELSE 0
                statePostal == parseStatePostal(At(3 + shift))
            IN IF n = 0 THEN empty
               ELSE [street |-> parts[1],
                     apartment |-> IF shift = 1 THEN parts[2] ELSE <<>>,
                     city |-> At(2 + shift),
                     state |-> statePostal.state,
                     postal |-> statePostal.postal,
                     country |-> At(4 + shift)]

\* parseAddress applied to what consolidateAddressFields returns for the parts given
\* (no apartment); threw is whether an exception was raised
ParseConsolidatedAddress(street, city, state, postal, country) ==
    LET combined == StrV(consolidateAddressFields(street, StrV(<<>>), city, state, postal,
                                                  country))
    IN /\ call' = [op |-> "parseAddress",
                   arg |-> [street |-> street, city |-> city, state |-> state,
                            postal |-> postal, country |-> country,
                            combinedAddress |-> combined],
                   ret |-> parseAddress(combined),
                   threw |-> FALSE]
       /\ UNCHANGED <<columnMappings, heap, clock, outputFile, sample, infer, reader, run>>

-----------------------------------------------------------------------------
(* constants.js: NAME_COMPONENTS, ADDRESS_COMPONENTS, SEMANTIC_MAPPING_RULES *)

\* the entries of NAME_COMPONENTS, in the order of Object.entries
NAME_COMPONENTS ==
    << [component |-> "First Name", variations |->
            << <<"f", "i", "r", "s", "t", " ", "n", "a", "m", "e">>,
              <<"f", "n", "a", "m", "e">>, <<"f", "i", "r", "s", "t">>,
              <<"g", "i", "v", "e", "n", " ", "n", "a", "m", "e">>,
              <<"f", "o", "r", "e", "n", "a", "m", "e">>,
              <<"f", "i", "r", "s", "t", "_", "n", "a", "m", "e">>,
              <<"f", "i", "r", "s", "t", "n", "a", "m", "e">>,
              <<"g", "i", "v", "e", "n", "n", "a", "m", "e">> >>],
       [component |-> "Last Name", variations |->
            << <<"l", "a", "s", "t", " ", "n", "a", "m", "e">>,
              <<"l", "n", "a", "m", "e">>, <<"l", "a", "s", "t">>,
              <<"s", "u", "r", "n", "a", "m", "e">>,
              <<"f", "a", "m", "i", "l", "y", " ", "n", "a", "m", "e">>,
              <<"l", "a", "s", "t", "_", "n", "a", "m", "e">>,
              <<"l", "a", "s", "t", "n", "a", "m", "e">>,
              <<"f", "a", "m", "i", "l", "y", "n", "a", "m", "e">>,
              <<"f", "a", "m", "i", "l", "y", "_", "n", "a", "m", "e">> >>],
       [component |-> "Middle Name", variations |->
            << <<"m", "i", "d", "d", "l", "e", " ", "n", "a", "m", "e">>,
              <<"m", "n", "a", "m", "e">>, <<"m", "i", "d", "d", "l", "e">>,
              <<"m", "i", "d", "d", "l", "e", " ", "i", "n", "i", "t", "i", "a", "l">>,
              <<"m", "i">>, <<"m", "i", "d", "d", "l", "e", "_", "n", "a", "m", "e">>,
              <<"m", "i", "d", "d", "l", "e", "n", "a", "m", "e">>,
              <<"m", "i", "d", "d", "l", "e", "_", "i", "n", "i", "t", "i", "a", "l">> >>] >>

\* the entries of ADDRESS_COMPONENTS, in the order of Object.entries
ADDRESS_COMPONENTS ==
    << [component |-> "Street", variations |->
            << <<"s", "t", "r", "e", "e", "t">>,
              <<"a", "d", "d", "r", "e", "s", "s", " ", "l", "i", "n", "e", " ", "1">>,
              <<"a", "d", "d", "r", "e", "s", "s", "1">>,
              <<"s", "t", "r", "e", "e", "t", " ", "a", "d", "d", "r", "e", "s", "s">>,
              <<"r", "o", "a", "d">>,
              <<"s", "t", "r", "e", "e", "t", " ", "n", "a", "m", "e">>,
              <<"a", "d", "d", "r", "e", "s", "s", "_", "l", "i", "n", "e", "_", "1">>,
              <<"a", "d", "d", "r", "e", "s", "s", "_", "1">>,
              <<"a", "d", "d", "r", "1">> >>],
       [component |-> "Apartment", variations |->
            << <<"a", "p", "a", "r", "t", "m", "e", "n", "t">>, <<"a", "p", "t">>,
              <<"u", "n", "i", "t">>, <<"s", "u", "i", "t", "e">>,
              <<"a", "d", "d", "r", "e", "s", "s", " ", "l", "i", "n", "e", " ", "2">>,
              <<"a", "d", "d", "r", "e", "s", "s", "2">>,
              <<"a", "p", "t", " ", "n", "u", "m", "b", "e", "r">>,
              <<"u", "n", "i", "t", " ", "n", "u", "m", "b", "e", "r">>,
              <<"b", "u", "i", "l", "d", "i", "n", "g">>, <<"f", "l", "o", "o", "r">>,
              <<"a", "d", "d", "r", "e", "s", "s", "_", "l", "i", "n", "e", "_", "2">>,
              <<"a", "d", "d", "r", "e", "s", "s", "_", "2">>,
              <<"a", "d", "d", "r", "2">>,
              <<"a", "p", "a", "r", "t", "m", "e", "n", "t", "_", "n", "u", "m", "b", "e", "r">> >>],
       [component |-> "City", variations |->
            << <<"c", "i", "t", "y">>, <<"t", "o", "w", "n">>,
              <<"m", "u", "n", "i", "c", "i", "p", "a", "l", "i", "t", "y">>,
              <<"l", "o", "c", "a", "l", "i", "t", "y">>,
              <<"c", "i", "t", "y", "_", "n", "a", "m", "e">> >>],
       [component |-> "State", variations |->
            << <<"s", "t", "a", "t", "e">>, <<"p", "r", "o", "v", "i", "n", "c", "e">>,
              <<"r", "e", "g", "i", "o", "n">>,
              <<"s", "t", "a", "t", "e", "/", "p", "r", "o", "v", "i", "n", "c", "e">>,
              <<"s", "t">>,
              <<"s", "t", "a", "t", "e", "_", "p", "r", "o", "v", "i", "n", "c", "e">> >>],
       [component |-> "Country", variations |->
            << <<"c", "o", "u", "n", "t", "r", "y">>, <<"n", "a", "t", "i", "o", "n">>,
              <<"c", "o", "u", "n", "t", "r", "y", " ", "c", "o", "d", "e">>,
              <<"c", "o", "u", "n", "t", "r", "y", " ", "n", "a", "m", "e">>,
              <<"c", "o", "u", "n", "t", "r", "y", "_", "n", "a", "m", "e">>,
              <<"c", "o", "u", "n", "t", "r", "y", "_", "c", "o", "d", "e">> >>],
       [component |-> "Postal Code", variations |->
            << <<"z", "i", "p">>, <<"p", "o", "s", "t", "a", "l">>,
              <<"p", "o", "s", "t", "a", "l", " ", "c", "o", "d", "e">>,
              <<"z", "i", "p", " ", "c", "o", "d", "e">>,
              <<"p", "o", "s", "t", "c", "o", "d", "e">>,
              <<"z", "i", "p", "c", "o", "d", "e">>,
              <<"p", "o", "s", "t", " ", "c", "o", "d", "e">>,
              <<"p", "i", "n", "c", "o", "d", "e">>, <<"p", "i", "n">>,
              <<"p", "o", "s", "t", "a", "l", "_", "c", "o", "d", "e">>,
              <<"z", "i", "p", "_", "c", "o", "d", "e">>,
              <<"p", "o", "s", "t", "_", "c", "o", "d", "e">> >>] >>

\* SEMANTIC_MAPPING_RULES['Address']
addressVariations ==
    << <<"a", "d", "d", "r", "e", "s", "s">>,
      <<"f", "u", "l", "l", " ", "a", "d", "d", "r", "e", "s", "s">>,
      <<"c", "o", "m", "p", "l", "e", "t", "e", " ", "a", "d", "d", "r", "e", "s", "s">>,
      <<"l", "o", "c", "a", "t", "i", "o", "n">>, <<"a", "d", "d", "r">>,
      <<"f", "u", "l", "l", "_", "a", "d", "d", "r", "e", "s", "s">>,
      <<"c", "o", "m", "p", "l", "e", "t", "e", "_", "a", "d", "d", "r", "e", "s", "s">>,
      <<"m", "a", "i", "l", "i", "n", "g", " ", "a", "d", "d", "r", "e", "s", "s">>,
      <<"s", "h", "i", "p", "p", "i", "n", "g", " ", "a", "d", "d", "r", "e", "s", "s">> >>

\* the alternatives of the keyword pattern of looksLikeAddress
AddressKeywords ==
    << <<"s", "t", "r", "e", "e", "t">>, <<"s", "t">>, <<"a", "v", "e", "n", "u", "e">>,
      <<"a", "v", "e">>, <<"r", "o", "a", "d">>, <<"r", "d">>,
      <<"d", "r", "i", "v", "e">>, <<"d", "r">>, <<"l", "a", "n", "e">>, <<"l", "n">>,
      <<"b", "o", "u", "l", "e", "v", "a", "r", "d">>, <<"b", "l", "v", "d">>,
      <<"w", "a", "y">>, <<"c", "o", "u", "r", "t">>, <<"c", "t">>,
      <<"p", "l", "a", "c", "e">>, <<"p", "l">>, <<"a", "p", "t">>,
      <<"u", "n", "i", "t">>, <<"s", "u", "i", "t", "e">> >>

-----------------------------------------------------------------------------
(* tools.js: analyzeColumnRelationships; addressParser.js: looksLikeAddress *)

\* normalizeColumnName(columnName) of a string
normalizeColumnName(columnName) ==
    IF columnName = <<>> THEN <<>> ELSE trim(toLowerCase(columnName))

\* variations.some(v => normalized === v ||
\*     (normalized.includes(v) && normalized.length > v.length + 2))
someNameVariation(variations, header) ==
    LET normalized == normalizeColumnName(header)
    IN \E k \in 1..Len(variations) :
          \/ normalized = variations[k]
          \/ (includes(normalized, variations[k])
                 /\ Len(normalized) > Len(variations[k]) + 2)

\* variations.some(v => normalized === v || normalized.includes(v))
someAddressVariation(variations, header) ==
    LET normalized == normalizeColumnName(header)
    IN \E k \in 1..Len(variations) :
          normalized = variations[k] \/ includes(normalized, variations[k])

\* for (const header of headers) { if (...) { components[component] = header; break; } }
\* over every entry of NAME_COMPONENTS: the first matching header of each component
scanNameComponents(headers) ==
    LET first == [c \in 1..Len(NAME_COMPONENTS) |->
                     LET hit == {i \in 1..Len(headers) :
                                    someNameVariation(NAME_COMPONENTS[c].variations,
                                                      headers[i])}
                     IN IF hit = {} THEN 0 ELSE CHOOSE i \in hit : \A j \in hit : i <= j]
        found == {c \in 1..Len(NAME_COMPONENTS) : first[c] # 0}
    IN [n \in {NAME_COMPONENTS[c].component : c \in found} |->
           headers[first[CHOOSE d \in found : NAME_COMPONENTS[d].component = n]]]

scanAddressComponents(headers) ==
    LET first == [c \in 1..Len(ADDRESS_COMPONENTS) |->
                     LET hit == {i \in 1..Len(headers) :
                                    someAddressVariation(ADDRESS_COMPONENTS[c].variations,
                                                         headers[i])}
                     IN IF hit = {} THEN 0 ELSE CHOOSE i \in hit : \A j \in hit : i <= j]
        found == {c \in 1..Len(ADDRESS_COMPONENTS) : first[c] # 0}
    IN [n \in {ADDRESS_COMPONENTS[c].component : c \in found} |->
           headers[first[CHOOSE d \in found : ADDRESS_COMPONENTS[d].component = n]]]

\* hasFirstName && hasLastName, without the comparison of the two headers
validNameSplitSameHeader(nameComponents) ==
    /\ "First Name" \in DOMAIN nameComponents /\ nameComponents["First Name"] # <<>>
    /\ "Last Name" \in DOMAIN nameComponents /\ nameComponents["Last Name"] # <<>>

\* hasFirstName && hasLastName && hasFirstName !== hasLastName
validNameSplit(nameComponents) ==
    /\ "First Name" \in DOMAIN nameComponents /\ nameComponents["First Name"] # <<>>
    /\ "Last Name" \in DOMAIN nameComponents /\ nameComponents["Last Name"] # <<>>
    /\ nameComponents["First Name"] # nameComponents["Last Name"]

IsWordChar(c) ==
    \/ IsDigit(c) \/ c = "_"
    \/ \E i \in 1..Len(LowerCase) : c = LowerCase[i] \/ c = UpperCase[i]

\* /\b(street|st|...|suite)\b/i.test(value)
hasAddressKeywords(value) ==
    LET lower == toLowerCase(value)
    IN \E k \in 1..Len(AddressKeywords) :
          \E i \in 1..(Len(lower) - Len(AddressKeywords[k]) + 1) :
              LET j == i + Len(AddressKeywords[k]) - 1
              IN /\ SubSeq(lower, i, j) = AddressKeywords[k]
                 /\ (i = 1 \/ ~IsWordChar(lower[i - 1]))
                 /\ (j = Len(lower) \/ ~IsWordChar(lower[j + 1]))

\* looksLikeAddress(value)
looksLikeAddress(value) ==
    IF ~Truthy(value) \/ ~IsStr(value) THEN FALSE
    ELSE LET hasNumbers == \E i \in 1..Len(value.s) : IsDigit(value.s[i])
             hasCommas == includes(value.s, <<",">>)
         IN (hasAddressKeywords(value.s) /\ hasNumbers) \/ (hasCommas /\ hasNumbers)

\* addressVariations.some(v => normalized === v || normalized.includes(v))
isAddressColumn(header) == someAddressVariation(addressVariations, header)

\* row[i] of a sample row (0-based i in the code, 1-based here)
sampleCell(row, i) == IF i <= Len(row.a) THEN row.a[i] ELSE Undefined

\* sampleRows.map(row => row[i]).filter(Boolean).some(val => looksLikeAddress(val))
lookLikeCombinedAddress(sampleRows, i) ==
    \E r \in 1..Len(sampleRows.a) :
        /\ Truthy(sampleCell(sampleRows.a[r], i))
        /\ looksLikeAddress(sampleCell(sampleRows.a[r], i))

\* the first header that is an address column whose sample values look like addresses
combinedAddressIndex(headers, sampleRows) ==
    LET hits == {i \in 1..Len(headers) :
                    isAddressColumn(headers[i]) /\ lookLikeCombinedAddress(sampleRows, i)}
    IN IF hits = {} THEN 0 ELSE CHOOSE i \in hits : \A j \in hits : i <= j

\* The TypeError the function body throws, or "" if it throws none: headers.map on a
\* non-array, and, once some header is an address column, sampleRows.map on a
\* non-array or row[i] on a null row.
analyzeThrows(headers, sampleRows) ==
    IF ~IsArray(headers) THEN "Cannot read properties of null (reading 'map')"
    ELSE IF \A i \in 1..Len(headers.a) : ~isAddressColumn(headers.a[i]) THEN ""
    ELSE IF ~IsArray(sampleRows) THEN "Cannot read properties of null (reading 'map')"
    ELSE IF \E r \in 1..Len(sampleRows.a) : ~IsArray(sampleRows.a[r])
    THEN "Cannot read properties of null (reading '0')"
    ELSE ""

\* the relationships object built for an array of headers
relationshipsOf(headers, sampleRows) ==
    LET names == scanNameComponents(headers)
        addresses == scanAddressComponents(headers)
        combined == combinedAddressIndex(headers, sampleRows)
        nameSplit == validNameSplit(names)
    IN [hasNameSplit |-> nameSplit,
        nameComponents |-> IF nameSplit THEN names ELSE EmptyMap,
        hasAddressSplit |-> addresses # EmptyMap,
        addressComponents |-> addresses,
        hasCombinedAddress |-> combined # 0,
        combinedAddressColumn |-> IF combined = 0 THEN Null ELSE StrV(headers[combined])]

\* the value analyzeColumnRelationships({ headers, sampleRows }) returns
analyzeResult(headers, sampleRows) ==
    LET thrown == analyzeThrows(headers, sampleRows)
    IN IF thrown # ""
       THEN [success |-> FALSE,
             error |-> [message |-> thrown, functionName |-> "analyzeColumnRelationships"]]
       ELSE [success |-> TRUE, relationships |-> relationshipsOf(headers.a, sampleRows)]

AnalyzeColumnRelationships(headers, sampleRows) ==
    /\ call' = [op |-> "analyzeColumnRelationships",
                arg |-> [headers |-> headers, sampleRows |-> sampleRows],
                ret |-> analyzeResult(headers, sampleRows)]
    /\ UNCHANGED <<columnMappings, heap, clock, outputFile, sample, infer, reader, run>>

\* Header lists and sample rows for the analysis
MaxHeaders == 2

HeaderNames ==
    {<<"F", "i", "r", "s", "t", " ", "N", "a", "m", "e">>,
     <<"L", "a", "s", "t", " ", "N", "a", "m", "e">>,
     <<"F", "i", "r", "s", "t", " ", "L", "a", "s", "t">>,
     <<"N", "a", "m", "e">>,
     <<"U", "n", "i", "t", "s">>,
     <<" ", "C", "i", "t", "y">>,
     <<"A", "d", "d", "r", "e", "s", "s">>}

-----------------------------------------------------------------------------
(* excelFunctions.js: validateExcelMapping *)

\* the fixed texts of the messages pushed by the checks
IssueText ==
    [notTen |->
        <<" ", "d", "o", "e", "s", "n", "'", "t", " ", "h", "a", "v", "e", " ", "e", "x",
          "a", "c", "t", "l", "y", " ", "1", "0", " ", "c", "o", "l", "u", "m", "n", "s",
          " ", "(", "h", "a", "s", " ">>,
     email |->
        <<"d", "o", "e", "s", "n", "'", "t", " ", "l", "o", "o", "k", " ", "l", "i", "k",
          "e", " ", "a", " ", "v", "a", "l", "i", "d", " ", "e", "m", "a", "i", "l">>,
     phone |->
        <<"d", "o", "e", "s", "n", "'", "t", " ", "m", "a", "t", "c", "h", " ", "p", "h",
          "o", "n", "e", " ", "n", "u", "m", "b", "e", "r", " ", "p", "a", "t", "t", "e",
          "r", "n">>,
     number |->
        <<"i", "s", " ", "n", "o", "t", " ", "a", " ", "v", "a", "l", "i", "d", " ", "n",
          "u", "m", "b", "e", "r">>,
     age |->
        <<"d", "o", "e", "s", "n", "'", "t", " ", "l", "o", "o", "k", " ", "l", "i", "k",
          "e", " ", "a", " ", "v", "a", "l", "i", "d", " ", "a", "g", "e">>,
     gender |->
        <<"s", "h", "o", "u", "l", "d", " ", "b", "e", " ", "M", ",", " ", "F", ",", " ",
          "M", "a", "l", "e", ",", " ", "o", "r", " ", "F", "e", "m", "a", "l", "e">>]

\* String.prototype.toUpperCase
toUpperCase(s) ==
    [i \in 1..Len(s) |->
        IF \E k \in 1..Len(LowerCase) : LowerCase[k] = s[i]
        THEN UpperCase[CHOOSE k \in 1..Len(LowerCase) : LowerCase[k] = s[i]]
        ELSE s[i]]

\* the text parseFloat and parseInt read: leading spaces skipped
trimStart(s) ==
    IF \A i \in 1..Len(s) : IsSpace(s[i]) THEN <<>>
    ELSE SubSeq(s, CHOOSE i \in 1..Len(s) : ~IsSpace(s[i]) /\ \A j \in 1..(i - 1) : IsSpace(s[j]),
                Len(s))

\* the text after an optional sign
unsigned(s) == IF s # <<>> /\ s[1] \in {"+", "-"} THEN Tail(s) ELSE s

\* isNaN(parseFloat(s)): parseFloat reads the longest numeric prefix
parseFloatIsNaN(s) ==
    LET u == unsigned(trimStart(s))
    IN ~ \/ (Len(u) >= 1 /\ IsDigit(u[1]))
         \/ (Len(u) >= 2 /\ u[1] = "." /\ IsDigit(u[2]))
         \/ (Len(u) >= 8 /\ SubSeq(u, 1, 8) = <<"I", "n", "f", "i", "n", "i", "t", "y">>)

\* the decimal digits parseInt reads after the sign (no 0x prefix among the inputs)
RECURSIVE leadingDigits(_)
leadingDigits(u) ==
    IF u = <<>> \/ ~IsDigit(u[1]) THEN <<>> ELSE <<u[1]>> \o leadingDigits(Tail(u))

RECURSIVE digitsValue(_)
digitsValue(d) ==
    IF d = <<>> THEN 0
    ELSE 10 * digitsValue(SubSeq(d, 1, Len(d) - 1))
            + (CHOOSE n \in 0..9 : Digits[n + 1] = d[Len(d)])

\* parseInt(s): nan, or the integer read
parseInt(s) ==
    LET t == trimStart(s)
        d == leadingDigits(unsigned(t))
    IN IF d = <<>> THEN [nan |-> TRUE, n |-> 0]
       ELSE [nan |-> FALSE,
             n |-> IF t[1] = "-" THEN 0 - digitsValue(d) ELSE digitsValue(d)]

\* amount.replace(/[$,]/g, '')
cleanAmount(amount) ==
    LET Kept(c) == c \notin {"$", ","} IN SelectSeq(amount, Kept)

\* `Row ${rowIdx}: "${value}" ${text}`
rowMessage(rowIdx, value, text) ==
    <<"R", "o", "w", " ">> \o NatToStr(rowIdx) \o <<":", " ", "\"">> \o value
        \o <<"\"", " ">> \o text

\* the entry pushed for a row
finding(column, issue, rowIdx, severity) ==
    [column |-> column, issue |-> issue, affectedRows |-> <<rowIdx>>, severity |-> severity]

\* cell && cell.trim() !== '' (for a cell on which trim is a function)
filled(cell) == Truthy(cell) /\ trim(cell.s) # <<>>

\* the row has neither 10 cells nor is an array
badWidth(row) == ~IsArray(row) \/ Len(row.a) # 10

\* the issue of a row whose width is not 10
widthIssue(row, rowIdx) ==
    finding("ALL",
            <<"R", "o", "w", " ">> \o NatToStr(rowIdx) \o IssueText.notTen
                \o NatToStr(IF IsArray(row) THEN Len(row.a) ELSE 0) \o <<")">>,
            rowIdx, "error")

\* the Email check pushing to issues
rowIssuesEmailBlocking(row, rowIdx) ==
    LET email == row.a[10]
    IN IF filled(email) /\ ~emailPattern(email.s)
       THEN <<finding("Email", rowMessage(rowIdx, email.s, IssueText.email), rowIdx, "error")>>
       ELSE <<>>

\* the issues pushed for a 10-wide row of strings
rowIssues(row, rowIdx) ==
    LET amount == row.a[8]
    IN IF filled(amount) /\ parseFloatIsNaN(cleanAmount(amount.s))
       THEN <<finding("Amount", rowMessage(rowIdx, amount.s, IssueText.number), rowIdx, "error")>>
       ELSE <<>>

\* the warnings pushed for a 10-wide row of strings, in the order of the checks
rowWarnings(row, rowIdx) ==
    LET email == row.a[10]
        phone == row.a[6]
        quantity == row.a[9]
        age == row.a[3]
        gender == row.a[5]
        Warn(cond, column, value, text) ==
            IF cond THEN <<finding(column, rowMessage(rowIdx, value.s, text), rowIdx,
                                   "warning")>>
            ELSE <<>>
    IN Warn(filled(email) /\ ~emailPattern(email.s), "Email", email, IssueText.email)
       \o Warn(filled(phone) /\ ~phonePattern(phone.s), "Contact Number", phone, IssueText.phone)
       \o Warn(filled(quantity) /\ parseInt(quantity.s).nan, "Product Quantity", quantity,
               IssueText.number)
       \o Warn(filled(age) /\ (parseInt(age.s).nan \/ parseInt(age.s).n < 0
                                  \/ parseInt(age.s).n > 150),
               "Age", age, IssueText.age)
       \o Warn(filled(gender)
                  /\ toUpperCase(trim(gender.s)) \notin {<<"M">>, <<"F">>, <<"M", "A", "L", "E">>,
                                                        <<"F", "E", "M", "A", "L", "E">>},
               "Gender", gender, IssueText.gender)

\* sampleData.forEach(...): the issues or the warnings of rows from..Len(rows)
RECURSIVE collect(_, _, _)
collect(rows, from, issuesWanted) ==
    IF from > Len(rows) THEN <<>>
    ELSE LET row == rows[from]
             here == IF badWidth(row)
                     THEN IF issuesWanted THEN <<widthIssue(row, from - 1)>> ELSE <<>>
                     ELSE IF issuesWanted THEN rowIssues(row, from - 1)
                     ELSE rowWarnings(row, from - 1)
         IN here \o collect(rows, from + 1, issuesWanted)

\* warnings.reduce(...): a warning joins the first entry with its column and its
\* issue.split(':')[0], else it is appended
RECURSIVE aggregate(_, _)
aggregate(warnings, acc) ==
    IF warnings = <<>> THEN acc
    ELSE LET warning == Head(warnings)
             Same(w) == /\ w.column = warning.column
                        /\ split(w.issue, ":")[1] = split(warning.issue, ":")[1]
             hits == {k \in 1..Len(acc) : Same(acc[k])}
             existing == CHOOSE k \in hits : \A j \in hits : k <= j
         IN aggregate(Tail(warnings),
                      IF hits = {} THEN Append(acc, warning)
                      ELSE [acc EXCEPT ![existing].affectedRows =
                                          @ \o warning.affectedRows])

\* The message of the error thrown, or "" if none: the argument check, and cell.trim()
\* on a truthy cell that is not a string
validateThrows(sampleData) ==
    IF ~IsArray(sampleData) \/ sampleData.a = <<>>
    THEN "Sample data must be a non-empty array"
    ELSE IF \E r \in 1..Len(sampleData.a) :
               /\ ~badWidth(sampleData.a[r])
               /\ \E c \in {10, 6, 8, 9, 3, 5} : TrimThrows(sampleData.a[r].a[c])
    THEN "trim is not a function"
    ELSE ""

\* the value validateExcelMapping({ sampleData }) returns
validationResult(sampleData) ==
    LET thrown == validateThrows(sampleData)
        issues == collect(sampleData.a, 1, TRUE)
    IN IF thrown # "" THEN createErrorResponse("validateExcelMapping", thrown)
       ELSE [success |-> TRUE,
             validationPassed |-> Len(issues) = 0,
             issues |-> issues,
             warnings |-> aggregate(collect(sampleData.a, 1, FALSE), <<>>)]

ValidateExcelMapping(sampleData) ==
    /\ call' = [op |-> "validateExcelMapping", arg |-> [sampleData |-> sampleData],
                ret |-> validationResult(sampleData)]
    /\ UNCHANGED <<columnMappings, heap, clock, outputFile, sample, infer, reader, run>>

\* Sample rows: the cells read by the checks are age, gender, contact number, amount,
\* quantity and email; the other cells are empty strings
ValidationRow(age, gender, phone, amount, quantity, email) ==
    ArrV(<<StrV(<<>>), StrV(<<>>), age, StrV(<<>>), gender, phone, StrV(<<>>), amount,
           quantity, email>>)

MaxSampleRows == 2

ValidationRows ==
    {ValidationRow(StrV(<<"3", "0">>), StrV(<<"F">>),
                   StrV(<<"1", "2", "3", "4", "5", "6", "7", "8", "9", "0">>), StrV(<<"$", "1", ",", "5">>),
                   StrV(<<"2">>), StrV(<<"a", "@", "b", ".", "c">>)),
     ValidationRow(StrV(<<>>), StrV(<<>>),
                   StrV(<<>>), StrV(<<>>),
                   StrV(<<>>), StrV(<<"b", "a", "d">>)),
     ValidationRow(StrV(<<>>), StrV(<<>>),
                   StrV(<<>>), StrV(<<>>),
                   StrV(<<>>), StrV(<<"x", "@", "y">>)),
     ValidationRow(StrV(<<>>), StrV(<<>>),
                   StrV(<<>>), StrV(<<"a", "b", "c">>),
                   StrV(<<>>), StrV(<<>>)),
     ValidationRow(StrV(<<>>), StrV(<<>>),
                   StrV(<<>>), StrV(<<"1", "2", "a", "b", "c">>),
                   StrV(<<>>), StrV(<<>>)),
     ValidationRow(StrV(<<"2", "0", "0">>), StrV(<<"x">>),
                   StrV(<<"1", "2">>), StrV(<<"$">>),
                   StrV(<<"q">>), StrV(<<>>)),
     ValidationRow(StrV(<<"-", "5">>), StrV(<<" ", "m", "a", "l", "e", " ">>),
                   StrV(<<>>), StrV(<<>>),
                   StrV(<<"3", " ", "k", "g">>), StrV(<<" ">>)),
     ValidationRow(Null, Undefined, StrV(<<" ">>), Null, StrV(<<>>), Null),
     ValidationRow(StrV(<<>>), StrV(<<>>), StrV(<<>>), NumV(5), StrV(<<>>), StrV(<<>>)),
     ArrV(<<StrV(<<"a">>), StrV(<<"b">>)>>),
     Null}

-----------------------------------------------------------------------------
(* inferDataType on single values *)

\* Single values for the pattern cascade: each matches none, one or several patterns;
\* and every text of up to three characters made of a digit, a point and a comma
ClassifyValues ==
    {StrV(<<"a", "b">>),
     StrV(<<"1", "2", "3", "4", "5", "6", "7", "8", "9", "0">>),
     StrV(<<"2", "0", "2", "4", "-", "0", "1", "-", "0", "2">>),
     StrV(<<"1", "-", "2", "-", "2", "0", "2", "4">>),
     StrV(<<"1", "/", "2", "/", "2", "4">>),
     StrV(<<"1", "2">>),
     StrV(<<" ", "1", ".", "5">>),
     StrV(<<"$", "1", ",", "0", "0", "0">>),
     StrV(<<"1", ",", "5", "a">>),
     StrV(<<"1", "/", "2", "/", "2", "4", "@", "a", ".", "b">>),
     StrV(adEmail),
     NumV(7),
     BoolV(TRUE)}
        \cup {StrV(s) : s \in ListsUpTo({"1", ".", ","}, 3)}

-----------------------------------------------------------------------------
(* nameParser.js, addressParser.js, tools.js: the combiners on rows *)

\* idx >= 0 ? row[idx] : ''  with idx = headers.indexOf(name); a name that is undefined
\* or '' (written <<>>) is at no index
cellOf(row, headers, name) ==
    IF name # <<>> /\ indexOf(headers, name) > 0
    THEN CellAt(row, indexOf(headers, name))
    ELSE StrV(<<>>)

\* combineNameFromRow(nameMapping, row, headers)
combineNameFromRow(nameMapping, row, headers) ==
    combineName(cellOf(row, headers, nameMapping.firstNameColumn),
                cellOf(row, headers, nameMapping.lastNameColumn),
                cellOf(row, headers, nameMapping.middleNameColumn))

\* consolidateAddressFromRow(addressMapping, row, headers): the six properties the
\* function destructures are street, apartment, city, state, postal and country; a
\* property the object does not have is undefined
consolidateAddressFromRow(addressMapping, row, headers) ==
    LET val(key) == cellOf(row, headers,
                           IF key \in DOMAIN addressMapping THEN addressMapping[key]
                           ELSE <<>>)
    IN consolidateAddressFields(val("street"), val("apartment"), val("city"),
                                val("state"), val("postal"), val("country"))

\* the result of a combiner tool (`combined` is its combinedNames or its
\* consolidatedAddresses): sourceRows.map(...) throws on a sourceRows that is no array,
\* which the tool's catch turns into a failure
combinerResult(functionName, sourceRows, combined) ==
    IF ~IsArray(sourceRows)
    THEN [success |-> FALSE,
          error |-> [message |-> "sourceRows.map is not a function",
                     functionName |-> functionName]]
    ELSE [success |-> TRUE, rowCount |-> Len(sourceRows.a),
          combined |-> [i \in 1..Len(sourceRows.a) |-> combined[i]]]

\* combineNameFields({ firstNameColumn, lastNameColumn, middleNameColumn, sourceRows,
\* sourceHeaders }); a column name that is not given is <<>>
CombineNameFields(firstNameColumn, lastNameColumn, middleNameColumn, sourceRows, sourceHeaders) ==
    LET nameMapping == [firstNameColumn |-> firstNameColumn,
                        lastNameColumn |-> lastNameColumn,
                        middleNameColumn |-> middleNameColumn]
    IN /\ call' = [op |-> "combineNameFields",
                   arg |-> [columns |-> nameMapping, sourceRows |-> sourceRows,
                            sourceHeaders |-> sourceHeaders],
                   ret |-> combinerResult("combineNameFields", sourceRows,
                               [i \in 1..Len(sourceRows.a) |->
                                   combineNameFromRow(nameMapping, sourceRows.a[i],
                                                      sourceHeaders)])]
       /\ UNCHANGED <<columnMappings, heap, clock, outputFile, sample, infer, reader, run>>

\* consolidateAddress({ addressComponents, sourceRows, sourceHeaders })
ConsolidateAddress(addressComponents, sourceRows, sourceHeaders) ==
    /\ call' = [op |-> "consolidateAddress",
                arg |-> [addressComponents |-> addressComponents,
                         sourceRows |-> sourceRows, sourceHeaders |-> sourceHeaders],
                ret |-> combinerResult("consolidateAddress", sourceRows,
                            [i \in 1..Len(sourceRows.a) |->
                                consolidateAddressFromRow(addressComponents,
                                                          sourceRows.a[i], sourceHeaders)])]
    /\ UNCHANGED <<columnMappings, heap, clock, outputFile, sample, infer, reader, run>>

-----------------------------------------------------------------------------
(* excelFunctions.js: writeExcelFile *)

MaxFileRows == 4    \* rows of the output file, its header among them

\* finalData with the header put in front of the new rows on every append
finalDataHeaderAgain(existing, rows, append) ==
    IF append /\ existing # NoFile THEN existing \o <<STANDARD_COLUMNS>> \o rows
    ELSE <<STANDARD_COLUMNS>> \o rows

\* finalData: [...existingData, ...data] when append is set and the file can be read,
\* [STANDARD_COLUMNS, ...data] otherwise
finalData(existing, rows, append) ==
    IF append /\ existing # NoFile THEN existing \o rows
    ELSE <<STANDARD_COLUMNS>> \o rows

\* writeExcelFile({ directory, fileName, data, append }) on the one output file.  The
\* cells of data are strings (the items the tool's schema declares); the sheet holds
\* their text.
WriteExcelFile(data, append) ==
    LET failed == IF ~IsArray(data) \/ Len(data.a) = 0
                  THEN "Data must be a non-empty array"
                  ELSE IF \E r \in 1..Len(data.a) :
                              ~IsArray(data.a[r]) \/ Len(data.a[r].a) # 10
                  THEN "All rows must have exactly 10 columns"
                  ELSE ""
        arg == [data |-> data, append |-> append]
    IN /\ IF failed # ""
          THEN /\ call' = [op |-> "writeExcelFile", arg |-> arg,
                           ret |-> createErrorResponse("writeExcelFile", failed)]
               /\ UNCHANGED outputFile
          ELSE LET rows == [r \in 1..Len(data.a) |->
                               [c \in 1..10 |-> data.a[r].a[c].s]]
                   written == finalData(outputFile, rows, Truthy(append))
               IN /\ Len(written) <= MaxFileRows
                  /\ outputFile' = written
                  /\ call' = [op |-> "writeExcelFile", arg |-> arg,
                              ret |-> [success |-> TRUE, rowsWritten |-> Len(data.a),
                                       columns |-> 10]]
       /\ UNCHANGED <<columnMappings, heap, clock, sample, infer, reader, run>>

-----------------------------------------------------------------------------
(* excelFunctions.js: readExcelFileFull *)

BATCH_DEFAULT == 500    \* BATCH_SIZE_LIMITS.default
BATCH_MAX == 1000       \* BATCH_SIZE_LIMITS.max

\* a sheet without any row: sheet_to_json gives []
EmptySheet == [headers |-> <<>>, rows |-> <<>>, empty |-> TRUE]

\* a file of n data rows under one header
LongTable(n) == [headers |-> <<hCity>>, rows |-> [i \in 1..n |-> <<StrV(<<"r">>)>>]]

\* the batch readExcelFileFull({ ..., startRow, batchSize }) returns for a file holding
\* `table`; startRow and batchSize are numbers, or Undefined for their defaults.
\* Row i of the code is row i + 1 here.
readExcelFileFull(table, startRow, batchSize) ==
    IF table = NoTable THEN createErrorResponse("readExcelFileFull", "File not found")
    ELSE IF table = EmptySheet
    THEN createErrorResponse("readExcelFileFull", "Sheet is empty")
    ELSE LET headers == headersOf(table)
             nonEmpty == nonEmptyDataRows(table)
             totalRows == Len(nonEmpty)
             start == IF startRow = Undefined THEN 0 ELSE startRow.n
             size == IF batchSize = Undefined THEN BATCH_DEFAULT ELSE batchSize.n
             effectiveBatchSize == Min(size, BATCH_MAX)
             endRow == Min(start + effectiveBatchSize, totalRows)
             \* nonEmptyDataRows[i] || []
             rowAt(i) == IF i + 1 \in 1..totalRows THEN nonEmpty[i + 1] ELSE <<>>
             rows == [k \in 1..(endRow - start) |->
                         [c \in 1..Len(headers) |->
                             formatValue(CellAt(rowAt(start + k - 1), c), headers[c])]]
         IN [success |-> TRUE, totalRows |-> totalRows, rowsReturned |-> Len(rows),
             startRow |-> start, hasMore |-> endRow < totalRows, headers |-> headers,
             rows |-> rows]

NoReader == [calls |-> 0, rows |-> <<>>]

\* one call of readExcelFileFull, outside any batch loop
ReadExcelFileFull(table, startRow, batchSize) ==
    /\ call' = [op |-> "readExcelFileFull",
                arg |-> [table |-> table, startRow |-> startRow, batchSize |-> batchSize],
                ret |-> readExcelFileFull(table, startRow, batchSize)]
    /\ reader' = NoReader
    /\ UNCHANGED <<columnMappings, heap, clock, outputFile, sample, infer, run>>

MaxBatches == 4     \* calls of one batch loop

\* A caller reading a file batch by batch, as the tool's description has it: the first
\* call starts at row 0 ...
ReadFirstBatch(table, batchSize) ==
    LET ret == readExcelFileFull(table, NumV(0), batchSize)
    IN /\ call' = [op |-> "readExcelFileFull",
                   arg |-> [table |-> table, startRow |-> NumV(0), batchSize |-> batchSize],
                   ret |-> ret]
       /\ reader' = [calls |-> 1, rows |-> IF ret.success THEN ret.rows ELSE <<>>]
       /\ UNCHANGED <<columnMappings, heap, clock, outputFile, sample, infer, run>>

\* ... and while hasMore is true the next call starts rowsReturned rows further
ReadNextBatch ==
    /\ reader.calls \in 1..(MaxBatches - 1)
    /\ call.op = "readExcelFileFull" /\ call.ret.success /\ call.ret.hasMore
    /\ LET startRow == NumV(call.ret.startRow + call.ret.rowsReturned)
           ret == readExcelFileFull(call.arg.table, startRow, call.arg.batchSize)
       IN /\ call' = [call EXCEPT !.arg.startRow = startRow, !.ret = ret]
          /\ reader' = [calls |-> reader.calls + 1, rows |-> reader.rows \o ret.rows]
    /\ UNCHANGED <<columnMappings, heap, clock, outputFile, sample, infer, run>>

-----------------------------------------------------------------------------
(* process-excel-ai.js: the tool-calling loop of processExcelWithAI *)

maxSteps == 20          \* const maxSteps = 20
MaxToolCalls == 2       \* tool calls carried by one response

\* The locals of the loop and what it reads of `messages`: lastRole is the role of the
\* last message, lastResult the success flag of the result in the last tool message.
\* noTool counts the responses without tool calls since the last executed tool call
\* and prompts the 'Continue with the next step' messages pushed since then; both
\* stop counting at 2.
NoRun == [pc |-> "idle", stepCount |-> 0, isComplete |-> FALSE, lastRole |-> "user",
          lastResult |-> "none", noTool |-> 0, prompts |-> 0]

\* A tool call of a response: whether its function is writeExcelFile or
\* transformAndWriteFile, and how executeFunctionCall ends: with a result whose success
\* is true or false, or by throwing (arguments of a wrong type, a function not found)
ToolCalls ==
    [write : BOOLEAN, outcome : {"success", "failure", "throws"}]

\* for (const toolCall of toolCalls) { ... }
RECURSIVE execute(_, _)
execute(r, toolCalls) ==
    IF toolCalls = <<>> THEN r
    ELSE IF Head(toolCalls).outcome = "throws" THEN [r EXCEPT !.pc = "failed"]
    ELSE LET pushed == [r EXCEPT !.stepCount = @ + 1, !.lastRole = "tool",
                                 !.lastResult = Head(toolCalls).outcome,
                                 !.noTool = 0, !.prompts = 0]
         IN IF Head(toolCalls).write THEN [pushed EXCEPT !.isComplete = TRUE]
            ELSE execute(pushed, Tail(toolCalls))

\* the loop body on a response that never takes the break of its else branch
respondNeverBreaks(r, toolCalls) ==
    IF Len(toolCalls) > 0 THEN execute(r, toolCalls)
    ELSE [r EXCEPT !.lastRole = "user", !.noTool = Min(@ + 1, 2),
                   !.prompts = Min(@ + 1, 2)]

\* the loop body on a response
respond(r, toolCalls) ==
    IF Len(toolCalls) > 0 THEN execute(r, toolCalls)
    ELSE IF r.lastRole = "tool" /\ ~r.isComplete
    THEN [r EXCEPT !.lastRole = "user", !.noTool = Min(@ + 1, 2),
                   !.prompts = Min(@ + 1, 2)]
    ELSE [r EXCEPT !.pc = "done", !.noTool = Min(@ + 1, 2)]

\* processExcelWithAI enters the loop: messages holds the system and the user message
StartRun ==
    /\ run.pc = "idle"
    /\ run' = [run EXCEPT !.pc = "loop"]
    /\ UNCHANGED <<columnMappings, heap, clock, call, outputFile, sample, infer, reader>>

\* one iteration: the response arrives, the body runs, and the loop condition
\* !isComplete && stepCount < maxSteps is tested
Respond(toolCalls) ==
    /\ run.pc = "loop"
    /\ LET r == respond(run, toolCalls)
       IN run' = IF r.pc = "loop" /\ (r.isComplete \/ r.stepCount >= maxSteps)
                 THEN [r EXCEPT !.pc = "done"]
                 ELSE r
    /\ UNCHANGED <<columnMappings, heap, clock, call, outputFile, sample, infer, reader>>

\* axios.post throws (no connection, the 5 minute timeout): the outer catch ends the run
RequestFails ==
    /\ run.pc = "loop"
    /\ run' = [run EXCEPT !.pc = "failed"]
    /\ UNCHANGED <<columnMappings, heap, clock, call, outputFile, sample, infer, reader>>

-----------------------------------------------------------------------------
(* Specifications *)

Idle ==
    /\ clock = 0
    /\ call = NoCall
    /\ outputFile = NoFile
    /\ sample = NoSample
    /\ infer = [prev |-> NoInfer, last |-> NoInfer]
    /\ reader = NoReader
    /\ run = NoRun

Init ==
    /\ columnMappings = EmptyMap
    /\ heap = EmptyMap
    /\ Idle

MappingIds == {MappingId(time, rand) : time \in 0..MaxClock, rand \in 1..NumRand}

\* the rows and headers arguments of a transformRows call
RowsInputs(table) ==
    {Null} \cup {ArrV(SubSeq(table.rows, 1, n)) : n \in 0..Min(MaxRows, Len(table.rows))}

HeadersInputs(table) == {Null, ArrV(headersOf(table))}

NameColumnsInputs == {Undefined, [t |-> "object", firstName |-> hFirst, lastName |-> hLast]}

AddressComponentsInputs == {Undefined, [t |-> "object", city |-> hCity]}

\* The mapping store, its creators and its readers
Next ==
    \/ \E mapping \in MappingInputs(StoreCols), rand \in 1..NumRand :
           CreateColumnMapping(mapping, rand)
    \/ \E ref \in Refs, key \in StoreCols, val \in MapVals \cup {Absent} :
           CallerMutates(ref, key, val)
    \/ ClearColumnMappings
    \/ Tick
    \/ \E mappingId \in {Null} \cup MappingIds :
           \E sourceRows \in RowsInputs(Table1), sourceHeaders \in HeadersInputs(Table1) :
               TransformRows(mappingId, sourceRows, sourceHeaders)

Spec == Init /\ [][Next]_vars

\* The row transformer, on a store that holds one mapping
InitTransform ==
    /\ \E o \in MappingObjects(VaryCols) :
           /\ heap = [r \in {1} |-> o]
           /\ columnMappings = [i \in {MappingId(0, 1)} |-> 1]
    /\ Idle

NextTransform ==
    \E mappingId \in {MappingId(0, 1), MappingId(0, 2)}, table \in Tables :
        \E sourceRows \in RowsInputs(table), sourceHeaders \in HeadersInputs(table) :
            TransformRows(mappingId, sourceRows, sourceHeaders)

SpecTransform == InitTransform /\ [][NextTransform]_vars

\* Whole-file transformation
NextFile ==
    \E table \in Tables \cup {NoTable}, mapping \in MappingInputs(FileCols),
       nameColumns \in NameColumnsInputs, addressComponents \in AddressComponentsInputs :
           TransformAndWriteFile(table, mapping, nameColumns, addressComponents)

SpecFile == Init /\ [][NextFile]_vars

\* The sampler
NextSample ==
    \/ \E totalRows \in (-1)..MaxTotalRows, sampleSize \in 0..MaxSampleSize :
           CalculateSampleIndices(totalRows, sampleSize)
    \/ \E totalRows \in 0..MaxTotalRows, sampleSize \in 0..MaxSampleSize :
           ReadExcelFileSample(totalRows, sampleSize)

SpecSample == Init /\ [][NextSample]_vars

\* The value classifier
NextInfer == \E values \in InferInputs : InferDataType(values)

SpecInfer == Init /\ [][NextInfer]_vars

\* The pattern cascade on single values
NextClassify == \E v \in ClassifyValues : InferDataType(ArrV(<<v>>))

SpecClassify == Init /\ [][NextClassify]_vars

\* The name combiner
NextName ==
    \E firstName \in {StrV(<<"J", "o", "h", "n">>), StrV(<<" ", "J", "o", " ">>),
                       StrV(<<>>), StrV(<<" ">>), Null},
       lastName \in {StrV(<<"S", "m", "i", "t", "h">>), StrV(<<"A", "l", " ">>),
                      StrV(<<>>), StrV(<<" ">>), Null},
       middleName \in {StrV(<<"M", "i", "c", "h", "a", "e", "l">>), StrV(<<" ", "M">>),
                        StrV(<<>>), Undefined, Null} :
        CombineName(firstName, lastName, middleName)

SpecName == Init /\ [][NextName]_vars

\* The address consolidator
NextAddress ==
    \E street \in {StrV(<<" ">> \o adStreet), StrV(<<" ">>), Null},
       apartment \in {StrV(<<"A", "p", "t", " ", "4">>), StrV(<<>>), Undefined},
       city \in {StrV(adCity), StrV(<<" ">>), Null},
       state \in {StrV(<<"N", "Y", " ">>), StrV(<<>>), Null},
       postal \in {StrV(<<"1", "0", "0", "0", "1">>), NumV(7), StrV(<<" ">>), Null},
       country \in Countries :
        ConsolidateAddressFields(street, apartment, city, state, postal, country)

SpecAddress == Init /\ [][NextAddress]_vars

\* The address parser on consolidated addresses
NextParse ==
    \E street \in {StrV(<<" ">> \o adStreet), StrV(<<"5">>),
                    StrV(<<"1", " ", "E", "l", "m", ",", " ", "B">>), StrV(<<",">>),
                    StrV(<<" ">>)},
       city \in {StrV(adCity),
                  StrV(<<"S", "a", "n", " ", "F", "r", "a", "n", "c", "i", "s", "c", "o">>),
                  StrV(<<"U", "n", "i", "t", "y", " ", "V", "i", "l", "l", "a", "g", "e">>),
                  Null},
       state \in {StrV(<<"N", "Y", " ">>), StrV(adCity), StrV(<<"7">>)},
       postal \in {StrV(<<"1", "0", "0", "0", "1">>), StrV(<<"A", "B", "1">>), NumV(7)},
       country \in Countries :
        ParseConsolidatedAddress(street, city, state, postal, country)

SpecParse == Init /\ [][NextParse]_vars

\* Value formatting.  The zone shifts are those of UTC (0), of a zone on summer time
\* (3600), of America/Bogota (-224: 1899 offset -4:56:16, today -5:00) and of
\* Pacific/Apia (88016: 1899 offset -11:26:56, today +13:00)
NextFormat ==
    \E value \in {NumV(n) : n \in {-1, 0, 1, 60, 45000, 50000, 50001, 100000}}
                     \cup {Null, BoolV(TRUE), StrV(<<" ", "7", " ">>)},
       columnHint \in {<<>>, <<"D", "a", "t", "e">>, <<"t", "i", "m", "e">>,
                       <<"T", "i", "m", "e", "s", "t", "a", "m", "p">>,
                       <<"U", "s", "a", "g", "e", " ", "d", "a", "t", "e">>,
                       <<"d", "a", "t", "e", " ", "q", "t", "y">>,
                       <<"A", "m", "o", "u", "n", "t">>},
       zoneShift \in {0, 3600, -224, 88016} :
        FormatValue(value, columnHint, zoneShift)

SpecFormat == Init /\ [][NextFormat]_vars

\* Batch reading: single calls and batch loops, on files of up to BATCH_MAX + 1 rows
NextRead ==
    \/ \E table \in Tables \cup {NoTable, EmptySheet, LongTable(BATCH_DEFAULT + 1),
                                 LongTable(BATCH_MAX + 1)},
          startRow \in {Undefined, NumV(-1), NumV(1), NumV(BATCH_DEFAULT + 100)},
          batchSize \in {Undefined, NumV(2), NumV(BATCH_DEFAULT + 1), NumV(BATCH_MAX + 1)} :
           ReadExcelFileFull(table, startRow, batchSize)
    \/ \E table \in Tables \cup {NoTable, LongTable(BATCH_DEFAULT + 1)},
          batchSize \in {Undefined, NumV(-1), NumV(0), NumV(1), NumV(2)} :
           ReadFirstBatch(table, batchSize)
    \/ ReadNextBatch

SpecRead == Init /\ [][NextRead]_vars

\* Writing the output file: rows of ten strings, a short row, a row that is no array
NextWrite ==
    \E data \in {Null} \cup
                {ArrV(l) : l \in ListsUpTo(
                     {ValidationRow(StrV(<<"7">>), StrV(<<>>), StrV(<<>>), StrV(<<>>),
                                    StrV(<<>>), StrV(<<>>)),
                      ValidationRow(StrV(<<>>), StrV(<<"F">>), StrV(<<>>), StrV(<<>>),
                                    StrV(<<>>), StrV(<<>>)),
                      ArrV(<<StrV(<<"a">>), StrV(<<"b">>)>>),
                      StrV(<<"r", "o", "w">>)}, 2)},
       append \in {Undefined, BoolV(FALSE), BoolV(TRUE)} :
        WriteExcelFile(data, append)

SpecWrite == Init /\ [][NextWrite]_vars

\* The combiner tools on the rows and headers of a source table; the address
\* components are those the column analysis detects in the headers, or objects with
\* the properties the tool's schema names
NextCombine ==
    \E table \in Tables :
        \E sourceRows \in RowsInputs(table) :
            \/ \E firstNameColumn \in {hFirst, hDate},
                  lastNameColumn \in {hLast, hCity},
                  middleNameColumn \in {<<>>, hDate, hCity} :
                   CombineNameFields(firstNameColumn, lastNameColumn, middleNameColumn,
                                     sourceRows, headersOf(table))
            \/ \E addressComponents \in
                      {scanAddressComponents(headersOf(table)),
                       [k \in {"city"} |-> hCity],
                       [k \in {"street", "city"} |-> IF k = "city" THEN hCity ELSE hDate],
                       [k \in {"street", "state"} |-> IF k = "state" THEN hLast ELSE hDate]} :
                   ConsolidateAddress(addressComponents, sourceRows, headersOf(table))

SpecCombine == Init /\ [][NextCombine]_vars

\* One run of processExcelWithAI against any sequence of model responses
NextRun ==
    \/ StartRun
    \/ \E toolCalls \in ListsUpTo(ToolCalls, MaxToolCalls) : Respond(toolCalls)
    \/ RequestFails

SpecRun == Init /\ [][NextRun]_vars

\* Every request ends, with a response or an exception (the request has a timeout)
SpecRunFair == SpecRun /\ WF_vars(NextRun)

\* Validation of transformed sample rows
NextValidate ==
    \E sampleData \in {Null} \cup {ArrV(l) : l \in ListsUpTo(ValidationRows, MaxSampleRows)} :
        ValidateExcelMapping(sampleData)

SpecValidate == Init /\ [][NextValidate]_vars

\* Column-relationship analysis
NextAnalyze ==
    \E headers \in {Null} \cup {ArrV(l) : l \in ListsUpTo(HeaderNames, MaxHeaders)},
       sampleRows \in {Null, ArrV(<<>>), ArrV(<<Null>>),
                       ArrV(<<ArrV(<<StrV(<<"x">>), StrV(adStreet)>>)>>)} :
        AnalyzeColumnRelationships(headers, sampleRows)

SpecAnalyze == Init /\ [][NextAnalyze]_vars

-----------------------------------------------------------------------------
(* Properties of the mapping store (specification Spec) *)

\* what the store resolves each mappingId to
StoreEntries == [id \in DOMAIN columnMappings |-> heap[columnMappings[id]]]

IsCreate(c) == c.op = "createColumnMapping"

\* C1: createColumnMapping returns a failure (never a mappingId) when one of the 10
\* canonical fields is not a key of the mapping, succeeds when all 10 keys are
\* present, and a failed call leaves the entries of the mapping store as they were.
C1_CreateValidates ==
    [][IsCreate(call') /\ IsObject(call'.arg.mapping)
          => /\ (missingColumns(call'.arg.mapping.o) # {}) = ~call'.ret.success
             /\ ~call'.ret.success => StoreEntries' = StoreEntries]_vars

\* C2: the entries a stored mappingId resolves to never change while the store
\* keeps the entry made for it by createColumnMapping.
C2_StoredMappingImmutable ==
    [][\A id \in DOMAIN columnMappings \cap DOMAIN columnMappings' :
          columnMappings'[id] = columnMappings[id] => StoreEntries'[id] = StoreEntries[id]]_vars

\* C3: a successful createColumnMapping returns a mappingId that no earlier call
\* returned, so it does not replace an entry of the store.
C3_FreshMappingId ==
    [][IsCreate(call') /\ call'.ret.success /\ columnMappings' # columnMappings
          => call'.ret.mappingId \notin DOMAIN columnMappings]_vars

IsTransform(c) == c.op = "transformRows"

\* C4: transformRows fails, returns no rows and leaves the store unchanged when the
\* mappingId is not in the store and when sourceRows or sourceHeaders is not an
\* array; an unknown mappingId is reported whatever the shape of the other inputs.
C4_TransformRejects ==
    [][IsTransform(call')
          => LET arg == call'.arg
                 ret == call'.ret
                 unknown == arg.mappingId \notin DOMAIN columnMappings
                 misshapen == ~IsArray(arg.sourceRows) \/ ~IsArray(arg.sourceHeaders)
             IN /\ unknown \/ misshapen => ~ret.success
                /\ ~ret.success => "transformedRows" \notin DOMAIN ret
                /\ unknown /\ arg.mappingId # Null => ret.error.message = "Mapping not found"
                /\ columnMappings' = columnMappings
                /\ heap' = heap]_vars

\* An id once created and then cleared is rejected as unknown, with misshapen inputs.
C4_Witness ==
    /\ IsTransform(call)
    /\ heap # EmptyMap /\ columnMappings = EmptyMap
    /\ call.arg.mappingId # Null
    /\ ~IsArray(call.arg.sourceRows)
    /\ ~call.ret.success /\ call.ret.error.message = "Mapping not found"

-----------------------------------------------------------------------------
(* Properties of the row transformer (specifications SpecTransform, SpecFile) *)

Chars ==
    RangeOf(Digits) \cup RangeOf(UpperCase) \cup RangeOf(LowerCase) \cup {" ", "/", "-", "."}

\* the positions of sourceHeaders that hold the header `name`
PositionsOf(sourceHeaders, name) == {k \in 1..Len(sourceHeaders) : sourceHeaders[k] = name}

\* C5: a successful transformRows call returns one row per source row, in order;
\* each row has 10 strings; position j is '' when the entry of canonical field j is
\* empty, '' when the mapped header is not among sourceHeaders or the row has no
\* cell there, and otherwise the formatted value of the cell under that header.
C5_TransformedRows ==
    IsTransform(call) /\ call.ret.success
       => LET mapping == getColumnMapping(call.arg.mappingId)
              sourceRows == call.arg.sourceRows.a
              sourceHeaders == call.arg.sourceHeaders.a
              out == call.ret.transformedRows
          IN /\ Len(out) = Len(sourceRows)
             /\ \A i \in 1..Len(out) :
                   /\ Len(out[i]) = 10
                   /\ \A j \in 1..10 :
                         LET entry == Get(mapping, STANDARD_COLUMNS[j])
                         IN /\ out[i][j] \in Seq(Chars)
                            /\ IF ~Truthy(entry) \/ trim(entry.s) = <<>>
                               THEN out[i][j] = <<>>
                               ELSE IF PositionsOf(sourceHeaders, entry.s) = {}
                               THEN out[i][j] = <<>>
                               ELSE \E k \in PositionsOf(sourceHeaders, entry.s) :
                                       out[i][j] = IF k > Len(sourceRows[i]) THEN <<>>
                                                   ELSE formatValue(sourceRows[i][k], entry.s)

\* A ragged row is transformed: a serial date is formatted, a name is trimmed, and
\* a second row yields '' for a mapped header it has no cell for.
C5_Witness ==
    /\ IsTransform(call) /\ call.ret.success
    /\ Len(call.ret.transformedRows) = 2
    /\ call.ret.transformedRows[1][1] = <<"A">>
    /\ call.ret.transformedRows[2][1] = <<>>
    /\ call.ret.transformedRows[1][2] = <<>>
    /\ Get(getColumnMapping(call.arg.mappingId), STANDARD_COLUMNS[2]) = StrV(hFirst)

isTransformFile(c) == c.op = "transformAndWriteFile"

\* C6: transformRows and transformAndWriteFile fail for a mapping that lacks one of
\* the 10 canonical keys; neither emits the missing field as an empty column.
C6_PartialMappingRejected ==
    /\ IsTransform(call) /\ call.arg.mappingId \in DOMAIN columnMappings
          /\ missingColumns(getColumnMapping(call.arg.mappingId)) # {}
          => ~call.ret.success
    /\ isTransformFile(call) /\ IsObject(call.arg.mapping)
          /\ missingColumns(call.arg.mapping.o) # {}
          => ~call.ret.success

\* row[headers.indexOf(name)]
CellUnder(headers, row, name) == CellAt(row, indexOf(headers, name))

\* C7: when transformAndWriteFile is given nameColumns and/or addressComponents,
\* the Name and/or Address position of every written row holds the combined name /
\* consolidated address built from those columns of the same source row.
C7_CombinersApplied ==
    isTransformFile(call) /\ call.ret.success
       => LET headers == headersOf(call.arg.table)
              rows == nonEmptyDataRows(call.arg.table)
              nameColumns == call.arg.nameColumns
              addressComponents == call.arg.addressComponents
          IN \A i \in 1..Len(rows) :
                /\ nameColumns # Undefined
                      => outputFile[i + 1][2] =
                            combineName(CellUnder(headers, rows[i], nameColumns.firstName),
                                        CellUnder(headers, rows[i], nameColumns.lastName),
                                        Undefined)
                /\ addressComponents # Undefined
                      => outputFile[i + 1][4] =
                            consolidateAddressFields(Undefined, Undefined,
                                CellUnder(headers, rows[i], addressComponents.city),
                                Undefined, Undefined, Undefined)

-----------------------------------------------------------------------------
(* Properties of the sampler (specification SpecSample) *)

isSampleCall(c) == c.op = "calculateSampleIndices"

StrictlyIncreasing(seq) == \A i \in 1..(Len(seq) - 1) : seq[i] < seq[i + 1]

\* C8: for sampleSize >= 2 and totalRows > sampleSize, calculateSampleIndices
\* returns a strictly increasing sequence of integers of [0, totalRows), of length
\* at most sampleSize, that contains 0 and totalRows - 1; for totalRows <= 0 it
\* returns the empty sequence and for 0 < totalRows <= sampleSize exactly
\* 0 .. totalRows - 1.
C8_SampleIndices ==
    isSampleCall(sample)
       => LET totalRows == sample.totalRows
              desired == sample.sampleSize
              indices == sample.indices
          IN /\ desired >= 2 /\ totalRows > desired
                   => /\ StrictlyIncreasing(indices)
                      /\ \A i \in 1..Len(indices) : indices[i] \in 0..(totalRows - 1)
                      /\ Len(indices) <= desired
                      /\ 0 \in RangeOf(indices)
                      /\ (totalRows - 1) \in RangeOf(indices)
             /\ totalRows <= 0 => indices = <<>>
             /\ 0 < totalRows /\ totalRows <= desired
                   => /\ Len(indices) = totalRows
                      /\ \A i \in 1..totalRows : indices[i] = i - 1

\* A sample with interior indices was taken from a table larger than the sample.
C8_Witness ==
    /\ isSampleCall(sample)
    /\ sample.sampleSize >= 4 /\ sample.totalRows > sample.sampleSize
    /\ Len(sample.indices) = sample.sampleSize

\* C9: for every totalRows and every sampleSize the sequence calculateSampleIndices
\* returns has length at most sampleSize, and readExcelFileSample returns at most
\* min(sampleSize, 10) sample rows.
C9_SampleLength ==
    /\ isSampleCall(sample) => Len(sample.indices) <= sample.sampleSize
    /\ sample.op = "readExcelFileSample"
          => sample.rowCount <= Min(sample.sampleSize, SAMPLE_CAP)

-----------------------------------------------------------------------------
(* Properties of the value classifier (specification SpecInfer) *)

\* the elements of a list that are neither null nor the empty string
RECURSIVE NonBlanks(_)
NonBlanks(list) ==
    IF list = <<>> THEN <<>>
    ELSE IF Head(list).t \in {"null", "undefined"} \/ Head(list) = StrV(<<>>)
    THEN NonBlanks(Tail(list))
    ELSE <<Head(list)>> \o NonBlanks(Tail(list))

\* C10: inferDataType depends only on the first non-blank value of its list: two
\* lists whose first non-blank elements are equal get the same tag, and a list with
\* no non-blank element gets 'empty'.
C10_FirstNonBlankDecides ==
    LET a == infer.prev
        b == infer.last
    IN /\ IsArray(a.values) /\ IsArray(b.values)
          /\ NonBlanks(a.values.a) # <<>> /\ NonBlanks(b.values.a) # <<>>
          /\ Head(NonBlanks(a.values.a)) = Head(NonBlanks(b.values.a))
          => a.dataType = b.dataType
       /\ IsArray(b.values) /\ NonBlanks(b.values.a) = <<>> => b.dataType = "empty"

\* Two lists that agree on the first non-blank value and differ after it, the
\* second with leading blanks, were classified.
C10_Witness ==
    LET a == infer.prev
        b == infer.last
    IN /\ IsArray(a.values) /\ IsArray(b.values)
       /\ NonBlanks(a.values.a) # <<>> /\ NonBlanks(b.values.a) # <<>>
       /\ Head(NonBlanks(a.values.a)) = Head(NonBlanks(b.values.a))
       /\ Len(NonBlanks(a.values.a)) = 2
       /\ NonBlanks(a.values.a)[2] # NonBlanks(a.values.a)[1]
       /\ Head(b.values.a) = Null
       /\ a.dataType = "email" /\ b.dataType = "email"

-----------------------------------------------------------------------------
(* Properties of the pattern cascade (specification SpecClassify) *)

\* the patterns in the order the contract fixes, with the tag each one gives
PatternOrder ==
    <<"phone", "email", "currency", "dateISO", "dateUS", "dateEU", "number", "decimal">>

PatternTag ==
    <<"phone", "email", "currency", "date", "date", "date", "number", "number">>

PatternMatches(i, s) ==
    CASE PatternOrder[i] = "phone" -> phonePattern(s)
      [] PatternOrder[i] = "email" -> emailPattern(s)
      [] PatternOrder[i] = "currency" -> currencyPattern(removeCommas(s))
      [] PatternOrder[i] = "dateISO" -> dateISOPattern(s)
      [] PatternOrder[i] = "dateUS" -> dateUSPattern(s)
      [] PatternOrder[i] = "dateEU" -> dateEUPattern(s)
      [] PatternOrder[i] = "number" -> numberPattern(s)
      [] PatternOrder[i] = "decimal" -> decimalPattern(s)

MatchingPatterns(s) == {i \in 1..Len(PatternOrder) : PatternMatches(i, s)}

\* the one-element list of the last inferDataType call, as the trimmed string tested
ClassifiedText == trim(String(infer.last.values.a[1]))

IsClassifyCall ==
    /\ IsArray(infer.last.values)
    /\ Len(infer.last.values.a) = 1
    /\ NonBlanks(infer.last.values.a) # <<>>

\* C11: inferDataType gives the first non-blank value the tag of the earliest pattern,
\* in the order phone, email, currency (commas removed), ISO date, US date, EU date,
\* integer, decimal, that matches it, and 'string' when none matches.
C11_EarliestPatternWins ==
    IsClassifyCall =>
        LET m == MatchingPatterns(ClassifiedText)
        IN infer.last.dataType =
              IF m = {} THEN "string"
              ELSE PatternTag[CHOOSE i \in m : \A j \in m : i <= j]

\* A value matching the phone pattern and the ISO date pattern was classified, and
\* got the tag of the earlier pattern.
C11_Witness ==
    /\ IsClassifyCall
    /\ {1, 4} \subseteq MatchingPatterns(ClassifiedText)
    /\ infer.last.dataType = "phone"
    /\ IsArray(infer.prev.values)
    /\ MatchingPatterns(trim(String(infer.prev.values.a[1]))) = {}
    /\ infer.prev.dataType = "string"

-----------------------------------------------------------------------------
(* Properties of the column-relationship analysis (specification SpecAnalyze) *)

IsAnalyze(c) == c.op = "analyzeColumnRelationships"

\* header h plays the role whose keywords are kws: its lower-cased, trimmed text equals
\* a keyword, or contains one and is more than two characters longer than it
PlaysRole(h, kws) ==
    LET n == trim(toLowerCase(h))
    IN \E k \in 1..Len(kws) :
          n = kws[k] \/ (includes(n, kws[k]) /\ Len(n) > Len(kws[k]) + 2)

FirstNameLike(h) == PlaysRole(h, NAME_COMPONENTS[1].variations)
LastNameLike(h) == PlaysRole(h, NAME_COMPONENTS[2].variations)

\* C12: analyzeColumnRelationships reports hasNameSplit = true only if a
\* First-Name-like header and a Last-Name-like header were both found and are two
\* different headers; in every other case hasNameSplit is false and nameComponents
\* is empty.
C12_NameSplitNeedsTwoHeaders ==
    IsAnalyze(call) /\ call.ret.success =>
        LET rel == call.ret.relationships
            headers == call.arg.headers.a
        IN /\ rel.hasNameSplit =>
                 /\ {"First Name", "Last Name"} \subseteq DOMAIN rel.nameComponents
                 /\ FirstNameLike(rel.nameComponents["First Name"])
                 /\ LastNameLike(rel.nameComponents["Last Name"])
                 /\ rel.nameComponents["First Name"] # rel.nameComponents["Last Name"]
                 /\ \E i, j \in 1..Len(headers) :
                        /\ headers[i] = rel.nameComponents["First Name"]
                        /\ headers[j] = rel.nameComponents["Last Name"]
           /\ ~rel.hasNameSplit => rel.nameComponents = EmptyMap
           /\ (\A i \in 1..Len(headers) : ~LastNameLike(headers[i])) => ~rel.hasNameSplit
           /\ (\A i \in 1..Len(headers) : ~FirstNameLike(headers[i])) => ~rel.hasNameSplit
           /\ Len(headers) = 1 => ~rel.hasNameSplit

\* The analysis ran on a single header that plays both roles, and reported no split
\* and no name components.
C12_Witness ==
    /\ IsAnalyze(call) /\ call.ret.success
    /\ Len(call.arg.headers.a) = 1
    /\ FirstNameLike(call.arg.headers.a[1]) /\ LastNameLike(call.arg.headers.a[1])
    /\ ~call.ret.relationships.hasNameSplit
    /\ call.ret.relationships.nameComponents = EmptyMap

\* C13: address-component detection applies to each header the matching rule of
\* name-component detection (the normalized header equals the keyword, or contains it
\* and is more than two characters longer), and hasAddressSplit is true exactly when
\* some address component matched a header, i.e. when addressComponents is non-empty.
C13_AddressRuleIsNameRule ==
    IsAnalyze(call) /\ call.ret.success =>
        LET rel == call.ret.relationships
            headers == call.arg.headers.a
        IN /\ \A c \in 1..Len(ADDRESS_COMPONENTS) :
                 (ADDRESS_COMPONENTS[c].component \in DOMAIN rel.addressComponents)
                    = (\E i \in 1..Len(headers) :
                          PlaysRole(headers[i], ADDRESS_COMPONENTS[c].variations))
           /\ rel.hasAddressSplit = (rel.addressComponents # EmptyMap)

-----------------------------------------------------------------------------
(* Properties of the combiners (specifications SpecName, SpecAddress) *)

\* a part that is absent or has no text besides spaces
BlankPart(v) == v.t \in {"null", "undefined"} \/ trim(String(v)) = <<>>

\* the trimmed text of a part, empty for a blank part
PartText(v) == IF BlankPart(v) THEN <<>> ELSE trim(String(v))

\* a and b with sep between them when both are non-empty
Joined(a, sep, b) == IF a = <<>> THEN b ELSE IF b = <<>> THEN a ELSE a \o sep \o b

\* C14: combineName(first, last, middle) returns the non-blank parts, trimmed, in
\* the order first, middle, last, joined by exactly one space; blank parts contribute
\* nothing (no leading, trailing or doubled separator).
C14_CombineName ==
    call.op = "combineName" =>
        LET a == call.arg
            r == call.ret.s
        IN /\ r = Joined(Joined(PartText(a.firstName), <<" ">>, PartText(a.middleName)),
                         <<" ">>, PartText(a.lastName))
           /\ r # <<>> => r[1] # " " /\ r[Len(r)] # " "
           /\ ~includes(r, <<" ", " ">>)

\* combineName('John', 'Smith', 'Michael') returned 'John Michael Smith'.
C14_Witness ==
    /\ call.op = "combineName"
    /\ call.arg.firstName = StrV(<<"J", "o", "h", "n">>)
    /\ call.arg.lastName = StrV(<<"S", "m", "i", "t", "h">>)
    /\ call.arg.middleName = StrV(<<"M", "i", "c", "h", "a", "e", "l">>)
    /\ call.ret.s = <<"J", "o", "h", "n", " ", "M", "i", "c", "h", "a", "e", "l", " ",
                      "S", "m", "i", "t", "h">>

\* C15: consolidateAddressFields returns the present parts, trimmed, in the order
\* street, apartment, city, state-and-postal, country joined by ', ', state and postal
\* forming one part joined by one space; no empty segment, no leading or trailing
\* separator and no doubled separator for any combination of absent parts.
C15_ConsolidateAddress ==
    call.op = "consolidateAddressFields" =>
        LET a == call.arg
            r == call.ret.s
            sep == <<",", " ">>
            statePostal == Joined(PartText(a.state), <<" ">>, PartText(a.postal))
        IN /\ r = Joined(Joined(Joined(Joined(PartText(a.street), sep,
                                              PartText(a.apartment)),
                                       sep, PartText(a.city)),
                                sep, statePostal),
                         sep, PartText(a.country))
           /\ r # <<>> => r[1] \notin {",", " "} /\ r[Len(r)] \notin {",", " "}
           /\ ~includes(r, <<",", " ", ",">>)
           /\ ~includes(r, <<",", ",">>)

\* An address with the state absent and the postal code present, no apartment and a
\* blank country was consolidated.
C15_Witness ==
    /\ call.op = "consolidateAddressFields"
    /\ ~BlankPart(call.arg.street) /\ BlankPart(call.arg.apartment)
    /\ ~BlankPart(call.arg.city)
    /\ BlankPart(call.arg.state) /\ ~BlankPart(call.arg.postal)
    /\ BlankPart(call.arg.country)
    /\ call.ret.s = adStreet \o <<",", " ">> \o adCity
                        \o <<",", " ", "1", "0", "0", "0", "1">>

\* C16: for non-blank street, city, state, postal and country (no apartment),
\* parseAddress(consolidateAddressFields(...)) completes without an exception and its
\* street field is the trimmed street that was supplied.
C16_StreetRecovered ==
    /\ call.op = "parseAddress"
    /\ \A v \in {call.arg.street, call.arg.city, call.arg.state, call.arg.postal,
                  call.arg.country} : ~BlankPart(v)
    => /\ ~call.threw
       /\ call.ret.street = trim(String(call.arg.street))

-----------------------------------------------------------------------------
(* Properties of the validation (specification SpecValidate) *)

IsValidation(c) == c.op = "validateExcelMapping" /\ c.ret.success

\* the text is a number: an optional sign, digits, and an optional fraction
IsNumberText(s) ==
    LET u == IF s # <<>> /\ s[1] \in {"+", "-"} THEN Tail(s) ELSE s
    IN numberPattern(u) \/ decimalPattern(u)

\* the cell is absent or has no text besides spaces
BlankCell(cell) == cell.t \in {"null", "undefined"} \/ trim(cell.s) = <<>>

\* the text of the cell without '$' and ','
Stripped(cell) == LET Kept(c) == c \notin {"$", ","} IN SelectSeq(trim(cell.s), Kept)

\* C17: validateExcelMapping records a blocking issue on column Amount for a 10-wide
\* row if and only if the row's Amount is non-blank and, with every '$' and ','
\* removed, is not a number; validationPassed is true only if every non-blank Amount
\* is numeric after that stripping.
C17_AmountIssueIffNotNumeric ==
    IsValidation(call) =>
        LET rows == call.arg.sampleData.a
            issues == call.ret.issues
            Wide(r) == IsArray(rows[r]) /\ Len(rows[r].a) = 10
            BadAmount(r) == ~BlankCell(rows[r].a[8]) /\ ~IsNumberText(Stripped(rows[r].a[8]))
        IN /\ \A r \in 1..Len(rows) :
                 Wide(r) =>
                     ((\E k \in 1..Len(issues) :
                          issues[k].column = "Amount" /\ issues[k].affectedRows = <<r - 1>>)
                      = BadAmount(r))
           /\ call.ret.validationPassed => \A r \in 1..Len(rows) : Wide(r) => ~BadAmount(r)

\* the findings of the list that name row index rowIdx
About(findings, rowIdx) ==
    {k \in 1..Len(findings) :
        \E i \in 1..Len(findings[k].affectedRows) : findings[k].affectedRows[i] = rowIdx}

\* the report column of each cell the content checks read
CheckedColumnName ==
    [c \in {3, 5, 6, 8, 9, 10} |->
        CASE c = 3 -> "Age" [] c = 5 -> "Gender" [] c = 6 -> "Contact Number"
          [] c = 8 -> "Amount" [] c = 9 -> "Product Quantity" [] c = 10 -> "Email"]

C19_WarningsAggregated ==
    IsValidation(call) =>
        LET warnings == call.ret.warnings
        IN \A k, j \in 1..Len(warnings) : warnings[k].column = warnings[j].column => k = j

-----------------------------------------------------------------------------
(* Properties of the failure results (specification Spec) *)

\* C20: every failure result of a public operation carries an error kind, a message
\* and the name of the originating operation, and the kind identifies the failure:
\* missing canonical fields give the mapping-error kind, an unknown mapping id the
\* mapping kind for an id that is not found, and malformed arguments a kind other
\* than these.
C20_FailureKinds ==
    call.op \in {"createColumnMapping", "transformRows"} /\ ~call.ret.success =>
        LET error == call.ret.error
            arg == call.arg
        IN /\ {"category", "message", "functionName"} \subseteq DOMAIN error
           /\ error.functionName = call.op
           /\ IsCreate(call) /\ IsObject(arg.mapping) /\ missingColumns(arg.mapping.o) # {}
                 => error.category = "MAPPING_ERROR"
           /\ IsCreate(call) /\ ~IsObject(arg.mapping) => error.category # "MAPPING_ERROR"
           /\ IsTransform(call) /\ arg.mappingId # Null
                 /\ arg.mappingId \notin DOMAIN columnMappings
                 => error.category = "MAPPING_ERROR"
           /\ IsTransform(call)
                 /\ (arg.mappingId = Null
                        \/ (arg.mappingId \in DOMAIN columnMappings
                               /\ (~IsArray(arg.sourceRows) \/ ~IsArray(arg.sourceHeaders))))
                 => error.category # "MAPPING_ERROR"

-----------------------------------------------------------------------------
(* C21: serial dates *)

\* the hint contains the word, whatever the case of its letters
HintHas(columnHint, word) == includes(toLowerCase(columnHint), word)

\* C21: for a whole number n and a hint h, formatValue returns the date n days after
\* 1899-12-30 as M/D/YYYY exactly when h contains date, time or timestamp, h contains
\* no numeric-domain keyword and 1 <= n <= 50000; otherwise it returns the decimal
\* text of n.
C21_SerialDateCountsDays ==
    (call.op = "formatValue" /\ IsNum(call.arg.value)) =>
        LET n == call.arg.value.n
            h == call.arg.columnHint
            asDate == /\ \E w \in {kwDate, kwTime, kwTimestamp} : HintHas(h, w)
                      /\ \A w \in NumericKeywords : ~HintHas(h, w)
                      /\ 1 <= n /\ n <= 50000
        IN call.ret.s = IF asDate THEN excelSerialToDate(n, 0) ELSE NumToStr(n)

-----------------------------------------------------------------------------
(* C22, C29: batches *)

IsRead == call.op = "readExcelFileFull" /\ call.ret.success

\* C22: readExcelFileFull never returns more than 500 rows in one batch, whatever
\* batchSize the caller passes.
C22_BatchAtMost500 == IsRead => call.ret.rowsReturned <= 500 /\ Len(call.ret.rows) <= 500

\* the non-empty data rows of the file, each formatted under the file's headers
FileRows(table) ==
    LET rows == nonEmptyDataRows(table)
    IN [i \in 1..Len(rows) |->
           [c \in 1..Len(table.headers) |->
               formatValue(CellAt(rows[i], c), trim(table.headers[c]))]]

\* C29: in a batch loop (startRow 0, then startRow advanced by rowsReturned while
\* hasMore is true) a call that reports hasMore returned at least one row, hasMore is
\* false exactly when startRow + rowsReturned has reached totalRows, the rows read so
\* far are the first rows of the file in file order, and when hasMore is false they
\* are all its rows.
C29_BatchLoopReadsAll ==
    (IsRead /\ reader.calls > 0) =>
        LET ret == call.ret
            all == FileRows(call.arg.table)
        IN /\ ret.hasMore => ret.rowsReturned >= 1
           /\ ret.hasMore <=> ret.startRow + ret.rowsReturned < ret.totalRows
           /\ Len(reader.rows) <= Len(all)
           /\ reader.rows = SubSeq(all, 1, Len(reader.rows))
           /\ ~ret.hasMore => reader.rows = all

-----------------------------------------------------------------------------
(* C23: the output file *)

\* the texts of the rows of a data argument
TextRows(data) == [r \in 1..Len(data.a) |-> [c \in 1..Len(data.a[r].a) |-> data.a[r].a[c].s]]

\* data is a non-empty array of arrays of width 10
TenWide(data) ==
    /\ IsArray(data) /\ Len(data.a) > 0
    /\ \A r \in 1..Len(data.a) : IsArray(data.a[r]) /\ Len(data.a[r].a) = 10

-----------------------------------------------------------------------------
(* C24, C28: the combiners on rows *)

IsConsolidate == call.op = "consolidateAddress" /\ call.ret.success

\* the cell of a row in the first column with the given header, '' without one
CellUnderHeader(row, headers, name) ==
    IF \E i \in 1..Len(headers) : headers[i] = name
    THEN CellAt(row, CHOOSE i \in 1..Len(headers) :
                         headers[i] = name /\ \A j \in 1..(i - 1) : headers[j] # name)
    ELSE StrV(<<>>)

\* C24: when the addressComponents object of the column analysis (hasAddressSplit
\* true) is passed unchanged to consolidateAddress with the source rows and headers,
\* each returned address is the consolidation of the row's cells in the detected
\* component columns, and is non-empty whenever one of those cells is non-blank.
C24_AnalysisFeedsConsolidation ==
    (IsConsolidate
        /\ call.arg.addressComponents = scanAddressComponents(call.arg.sourceHeaders)
        /\ call.arg.addressComponents # EmptyMap) =>
        LET detected == call.arg.addressComponents
            rows == call.arg.sourceRows.a
            cell(i, component) ==
                IF component \in DOMAIN detected
                THEN CellUnderHeader(rows[i], call.arg.sourceHeaders, detected[component])
                ELSE StrV(<<>>)
        IN \A i \in 1..Len(rows) :
              /\ call.ret.combined[i] =
                     consolidateAddressFields(cell(i, "Street"), cell(i, "Apartment"),
                                              cell(i, "City"), cell(i, "State"),
                                              cell(i, "Postal Code"), cell(i, "Country"))
              /\ (\E component \in DOMAIN detected : ~BlankPart(cell(i, component)))
                    => call.ret.combined[i] # <<>>

\* the cell the row transformer takes for a header name
TransformerCell(row, headers, name) == CellAt(row, sourceIndexMap(headers, name))

\* C28: for every header list, also with a header name that occurs more than once,
\* the combiners take the value of a column from the cell the row transformer takes
\* for the same header name.
C28_SameCellForAHeader ==
    /\ (call.op = "combineNameFields" /\ call.ret.success) =>
           \A i \in 1..Len(call.arg.sourceRows.a) :
              \A name \in {call.arg.columns.firstNameColumn,
                           call.arg.columns.lastNameColumn,
                           call.arg.columns.middleNameColumn} :
                 (name # <<>> /\ \E k \in 1..Len(call.arg.sourceHeaders) :
                                     call.arg.sourceHeaders[k] = name)
                    => cellOf(call.arg.sourceRows.a[i], call.arg.sourceHeaders, name)
                         = TransformerCell(call.arg.sourceRows.a[i],
                                           call.arg.sourceHeaders, name)
    /\ IsConsolidate =>
           \A i \in 1..Len(call.arg.sourceRows.a) :
              \A key \in DOMAIN call.arg.addressComponents \cap
                             {"street", "apartment", "city", "state", "postal", "country"} :
                 LET name == call.arg.addressComponents[key]
                 IN (\E k \in 1..Len(call.arg.sourceHeaders) :
                         call.arg.sourceHeaders[k] = name)
                       => cellOf(call.arg.sourceRows.a[i], call.arg.sourceHeaders, name)
                            = TransformerCell(call.arg.sourceRows.a[i],
                                              call.arg.sourceHeaders, name)

-----------------------------------------------------------------------------
(* C25, C26, C27: the tool-calling loop *)

\* C25: in one run the number of tool calls executed never exceeds maxSteps, also
\* when a response carries several tool calls.
C25_AtMostMaxStepsCalls == run.stepCount <= maxSteps

\* C27: the run is marked complete only when a writeExcelFile or transformAndWriteFile
\* call returned a success result, and once it is complete no further tool call is
\* executed.
C27_CompleteOnlyAfterWrittenFile ==
    [][/\ run'.isComplete => run'.lastResult = "success"
       /\ run.isComplete => run'.stepCount = run.stepCount]_vars

Ended == run.pc \in {"done", "failed"}

\* C26 as stated: the loop ends after a write tool call, after the step limit is
\* reached, or after two responses in a row without tool calls.
C26_EndsInOneOfThreeWays ==
    run.pc = "done" => run.isComplete \/ run.stepCount >= maxSteps \/ run.noTool >= 2

\* C26, amended: the loop terminates; it ends after a write tool call, after the step
\* limit is reached, after a response without tool calls that is the first response
\* or follows a 'continue' prompt, or by an exception of a request or a tool call;
\* and between two executed tool calls at most one 'continue' prompt is sent.
C26_LoopTerminates ==
    /\ [](run.pc = "done" =>
             \/ run.isComplete
             \/ run.stepCount >= maxSteps
             \/ (run.noTool = 1 /\ run.stepCount = 0 /\ run.prompts = 0)
             \/ (run.noTool = 2 /\ run.prompts = 1))
    /\ [](run.prompts <= 1)
    /\ (run.pc = "loop" ~> Ended)

\* a run that got a 'continue' prompt and then ended on a second answer without tools
C26_Witness == run.pc = "done" /\ run.noTool = 2 /\ run.prompts = 1 /\ run.stepCount > 0

-----------------------------------------------------------------------------
(* C30: the tag 'number' *)

\* C30: inferDataType never returns 'number': a first value that matches the integer
\* or the decimal pattern also matches the phone or the currency pattern, which are
\* tested earlier, so the tag is one of empty, phone, email, currency, date, string.
C30_NumberTagUnreachable ==
    /\ infer.last.dataType \in {"empty", "phone", "email", "currency", "date", "string"}
    /\ IsClassifyCall =>
           ((numberPattern(ClassifiedText) \/ decimalPattern(ClassifiedText))
               => infer.last.dataType \in {"phone", "currency"})

\* '1.1' matches the decimal pattern and was tagged currency
C30_Witness ==
    /\ IsClassifyCall
    /\ ClassifiedText = <<"1", ".", "1">>
    /\ decimalPattern(ClassifiedText)
    /\ infer.last.dataType = "currency"

=============================================================================
